---------------------------- MODULE Spec2Model ----------------------------
(***************************************************************************)
(* A model of privex.steemengine.SteemEngineToken: the se_cache wrapper,   *)
(* the per-network Beem instance table, the read helpers get_token,        *)
(* get_token_balance and account_exists, the three broadcasting            *)
(* operations send_token, issue_token and place_order, and the on-chain    *)
(* lookup find_steem_tx.                                                   *)
(*                                                                         *)
(* Decimals.  A Decimal is a record [c, e, s] standing for the number      *)
(*      c * 10^(-e)  +  s * SubUnit          (SubUnit = 5 * 10^(-27)).     *)
(* c * 10^(-e) is kept normalised (c carries no trailing zero unless       *)
(* e = 0).  Every Decimal a caller or the server writes as a decimal       *)
(* literal lies on a grid no finer than 10^(-2*MaxPrecision - 2) and has   *)
(* an even s; s is only needed because Decimal(pow(10, -p)) converts a     *)
(* binary float exactly, which is off the decimal 10^(-p) by less than     *)
(* 6 * 10^(-18): that offset is the odd s of FloatErr.  Comparison is      *)
(* lexicographic on (c * 10^(-e), s), which is the order of the numbers.   *)
(***************************************************************************)
EXTENDS Integers, Sequences, FiniteSets, TLC

\* ------------------------------------------------------------- bounds
\* Token precisions of the model: 0 .. MaxPrecision.
MaxPrecision == 8
\* The native coin's precision in the store of the model.
NativePrecision == 3

None == "None"

\* ------------------------------------------------------------ strings
\* str.upper() on the strings of the model.
Upper(str) ==
    CASE str = "tkn" -> "TKN"
      [] str = "abc" -> "ABC"
      [] str = "Abc" -> "ABC"
      [] str = "swap.hive" -> "SWAP.HIVE"
      [] str = "mycoin" -> "MYCOIN"
      [] str = "steemp" -> "STEEMP"
      [] OTHER -> str

\* str.lower() on the strings of the model.
Lower(str) ==
    CASE str = "HIVE" -> "hive"
      [] str = "Hive" -> "hive"
      [] str = "STEEM" -> "steem"
      [] str = "SELL" -> "sell"
      [] str = "BUY" -> "buy"
      [] str = "Hold" -> "hold"
      [] OTHER -> str

\* ----------------------------------------------------------- decimals
RECURSIVE Pow10(_)
Pow10(n) == IF n <= 0 THEN 1 ELSE 10 * Pow10(n - 1)

RECURSIVE Norm(_, _)
Norm(c, e) == IF e > 0 /\ c % 10 = 0 THEN Norm(c \div 10, e - 1)
              ELSE [c |-> c, e |-> e]

\* Decimal('<c>E-<e>'): the exact decimal c * 10^(-e).
Dec(c, e) == [c |-> Norm(c, e).c, e |-> Norm(c, e).e, s |-> 0]

\* x + k * SubUnit, for a decimal written with more digits than the grid.
Nudge(x, k) == [x EXCEPT !.s = x.s + k]

\* a * 10^d  <  b, for d >= 0, without leaving the integers of the checker.
ScaledLT(a, d, b) ==
    IF a = 0 THEN 0 < b
    ELSE IF a > 0
         THEN IF d > 9 \/ a > 2147483647 \div Pow10(d) THEN FALSE
              ELSE a * Pow10(d) < b
         ELSE IF d > 9 \/ (-a) > 2147483647 \div Pow10(d) THEN TRUE
              ELSE a * Pow10(d) < b

\* a  <  b * 10^d, for d >= 0.
LTScaled(a, b, d) ==
    IF b = 0 THEN a < 0
    ELSE IF b > 0
         THEN IF d > 9 \/ b > 2147483647 \div Pow10(d) THEN TRUE
              ELSE a < b * Pow10(d)
         ELSE IF d > 9 \/ (-b) > 2147483647 \div Pow10(d) THEN FALSE
              ELSE a < b * Pow10(d)

\* c * 10^(-e) parts compared: x < y.
MainLT(x, y) ==
    IF x.e >= y.e THEN LTScaled(x.c, y.c, x.e - y.e)
    ELSE ScaledLT(x.c, y.e - x.e, y.c)

\* Decimal.__lt__: exact comparison of two Decimals.
DecLT(x, y) == MainLT(x, y) \/ (~MainLT(y, x) /\ x.s < y.s)

\* Decimal.__gt__
DecGT(x, y) == DecLT(y, x)

\* Decimal.__mul__ of two Decimals on the decimal grid (s = 0).
DecMul(x, y) == Dec(x.c * y.c, x.e + y.e)

\* Decimal.quantize to dp places under ROUND_DOWN (truncation towards zero),
\* for x >= 0.
DecRoundDown(x, dp) ==
    IF x.e > dp
    THEN IF x.e - dp > 9 THEN Dec(0, 0)
         ELSE Dec(x.c \div Pow10(x.e - dp), dp)
    ELSE IF x.s < 0 /\ x.c > 0
         THEN Dec(x.c * Pow10(dp - x.e) - 1, dp)
         ELSE Dec(x.c, x.e)

\* Sub-unit offset of Decimal(pow(10, -p)) from the decimal 10^(-p): pow
\* with a negative exponent returns the nearest IEEE-754 double, and Decimal
\* converts it exactly.  The entry is 2 * floor(err / 10^(-26)) + 1, the
\* odd sub-unit count bracketing the double's error err(p):
\*   err(1) =  5.55e-18   err(2) =  2.08e-19   err(3) =  2.08e-20
\*   err(4) =  4.79e-21   err(5) =  8.18e-22   err(6) = -4.53e-23
\*   err(7) = -4.53e-24   err(8) =  2.09e-25   err(9) =  6.23e-26
\* pow(10, 0) is the int 1, which converts without error.
FloatErr(p) ==
    CASE p = 0 -> 0
      [] p = 1 -> 1110223025
      [] p = 2 -> 41633363
      [] p = 3 -> 4163337
      [] p = 4 -> 958435
      [] p = 5 -> 163607
      [] p = 6 -> -9051
      [] p = 7 -> -905
      [] p = 8 -> 41
      [] p = 9 -> 13

\* Decimal(pow(10, -p)): the threshold of the precision checks.
MinUnit(p) == Nudge(Dec(1, p), FloatErr(p))

\* A numeric argument: a Decimal (or a str holding a decimal literal), or the
\* float pow(10, -p) nearest to the decimal v = 10^(-p).
DecimalArg(v) == [kind |-> "Decimal", v |-> v]
FloatArg(p) == [kind |-> "float", v |-> Dec(1, p)]

\* Decimal(amount): a float converts to its exact binary value.
ToDecimal(arg) ==
    IF arg.kind = "float" THEN Nudge(arg.v, FloatErr(arg.v.e)) ELSE arg.v

\* conv_dec(number): a Decimal is kept, anything else goes through str(),
\* and the repr of the float nearest to 10^(-p) is the literal 10^(-p).
conv_dec(arg) == arg.v

\* dec_round(amount, dp) under the module's getcontext().rounding = ROUND_DOWN.
dec_round(x, dp) == DecRoundDown(x, dp)

\* '{0:.<dp>f}'.format(x): the digits of x at dp places (ROUND_DOWN context),
\* as the integer count of 10^(-dp) units together with dp.
FormatFixed(x, dp) ==
    LET r == DecRoundDown(x, dp)
    IN  [units |-> r.c * Pow10(dp - r.e), dp |-> dp]

\* ------------------------------------------------------------ the state
VARIABLES
    client,     \* the SteemEngineToken object: network, native_coin, network_account
    tokens,     \* the engine's tokens table, as rpc.findone reads it
    balances,   \* the engine's balances table, as rpc.find reads it
    accounts,   \* the accounts that exist on the blockchain
    CACHE,      \* SteemEngineToken.CACHE, the global cache switch
    cache,      \* the process-wide r_cache store: key -> cached result
    steem_ins,  \* SteemEngineToken._steem_ins: network -> Beem instance
    use_shared_instances,   \* SteemEngineToken.use_shared_instances
    SharedInstance,         \* beem.instance.SharedInstance.instance
    pc,         \* "idle", "broadcast" (custom_json has returned), "lookup"
                \* (find_steem_tx has read the head), "raised", "returned"
    call,       \* the running call: operation and arguments
    exc,        \* the exception the call raised, and what its message names: an
                \* account, or "dec_round" when that helper refused its places
    trace,      \* the remote requests the call has made, in order
    sent,       \* the custom_json invocations of the call, with their arguments
    j,          \* the broadcast acknowledgement custom_json returned
    ret,        \* what the call returned
    lookup,     \* find_steem_tx: the head it read, the blocks it was given,
                \* and what it returned
    blacklist,  \* CACHE_BLACKLIST, CACHE_BLACKLIST_FUNCS, CACHE_BLACKLIST_MODS
    window,     \* per cache key, the calls made since the key's time-to-live
                \* last ran out: how each was served
    threads     \* concurrent callers of a wrapped method: where each is in
                \* the wrapper, and what it got

world == <<client, tokens, balances, accounts, CACHE, use_shared_instances,
           blacklist, window, threads>>
frame == <<pc, call, exc, trace, sent, j, ret, lookup>>
vars == <<client, tokens, balances, accounts, CACHE, cache, steem_ins,
          use_shared_instances, SharedInstance,
          pc, call, exc, trace, sent, j, ret, lookup, blacklist, window, threads>>

\* The network argument a client is constructed with.
NetworkArgs == {"HIVE"}
\* What get_blockchain_name() of a Beem instance may report.
ChainNames == {"steem", "Hive"}

Networks == {"steem", "hive"}

\* default and range of find_steem_tx's window
last_blocks == 15
blocks_ahead == 5
\* The head block number find_steem_tx reads in the model.
HeadAtCall == 20

\* SteemEngineToken.__init__(network=networkArg), all other arguments default.
\* __init__(network_account, history_conf, network, **rpc_args), with
\* native_coin the keyword of that name in rpc_args (None when it is not
\* passed): on hive the account is set to the sidechain's whatever was
\* passed; the coin passed replaces the network's default.
SteemEngineToken(network_account, networkArg, native_coin_arg) ==
    LET network == Lower(networkArg)
        native_coin == IF network = "hive" THEN "SWAP.HIVE" ELSE "STEEMP"
    IN  [network |-> network,
         native_coin |-> Upper(IF native_coin_arg = None THEN native_coin
                               ELSE native_coin_arg),
         network_account |-> IF network = "hive" THEN "ssc-mainnet-hive"
                             ELSE network_account]

\* The constructor called with a network only.
NewClient(networkArg) == SteemEngineToken("ssc-mainnet1", networkArg, None)

\* A row of the tokens table / a Token object (Token.from_dict keeps the
\* fields), and the absent result None.
TokenRow(symbol, issuer, precision) ==
    [found |-> TRUE, symbol |-> symbol, issuer |-> issuer, precision |-> precision]
NoToken == [found |-> FALSE, symbol |-> "", issuer |-> "", precision |-> 0]

\* No instance (None); an instance carries the chain its nodes serve and its
\* identity among the live instances.
NoInstance == [made |-> FALSE, chain |-> "", id |-> 0]

\* An acknowledgement or a transaction of a block; NoTx is None.
NoTx == [found |-> FALSE, mined |-> FALSE, transaction_id |-> 0,
         signatures |-> <<>>, block_num |-> 0]
Ack(signatures) == [found |-> TRUE, mined |-> FALSE, transaction_id |-> 0,
                    signatures |-> signatures, block_num |-> 0]
MinedTx(id, signatures, b) ==
    [found |-> TRUE, mined |-> TRUE, transaction_id |-> id,
     signatures |-> signatures, block_num |-> b]

\* Signatures Beem puts on a broadcast of the model.
AckSignatures == <<2, 1>>

NoCall == [op |-> "", symbol |-> "", user |-> "", to |-> "",
           amount |-> DecimalArg(Dec(0, 0)), action |-> "",
           price |-> DecimalArg(Dec(0, 0)), find_tx |-> FALSE]
NoExc == [name |-> None, acct |-> ""]
NoLookup == [done |-> FALSE, current_num |-> 0, chain |-> <<>>, result |-> NoTx]
NoRet == [kind |-> None, tx |-> NoTx, broadcast_result |-> NoTx,
          network_transaction |-> NoTx]
EmptyCache == [k \in {} |-> FALSE]

\* A caller of a wrapped method: its module, as the sequence of the dotted
\* path's parts, and its function.  The library's own methods call from
\* privex.steemengine.SteemEngineToken.
Caller(module, function) == [module |-> module, function |-> function]
OwnModule == <<"privex", "steemengine", "SteemEngineToken">>
\* The three blacklists, empty as the class declares them.
NoBlacklist == [paths |-> {}, funcs |-> {}, mods |-> {}]
NoWindow == [k \in {} |-> <<>>]
NoThreads == <<>>

TypeOK ==
    /\ pc \in {"idle", "broadcast", "lookup", "raised", "returned"}
    /\ client.network \in Networks
    /\ CACHE \in BOOLEAN
    /\ DOMAIN steem_ins = Networks

Init ==
    /\ \E a \in NetworkArgs : client = NewClient(a)
    /\ \E p \in 0..MaxPrecision :
         /\ tokens = << TokenRow("TKN", "alice", p),
                        TokenRow(client.native_coin, "bob", NativePrecision) >>
         /\ balances =
              << [account |-> "alice", symbol |-> "TKN", balance |-> Dec(2, p)],
                 [account |-> "alice", symbol |-> client.native_coin,
                  balance |-> Dec(2, NativePrecision)],
                 [account |-> "ghost", symbol |-> "TKN", balance |-> Dec(2, p)],
                 [account |-> "bob", symbol |-> client.native_coin,
                  balance |-> Dec(2, NativePrecision)] >>
    /\ accounts = {"alice", "bob"}
    /\ CACHE \in BOOLEAN
    /\ cache = EmptyCache
    /\ steem_ins = [n \in Networks |-> NoInstance]
    /\ use_shared_instances = FALSE
    /\ SharedInstance = NoInstance
    /\ pc = "idle"
    /\ call = NoCall
    /\ exc = NoExc
    /\ trace = <<>>
    /\ sent = <<>>
    /\ j = NoTx
    /\ ret = NoRet
    /\ lookup = NoLookup
    /\ blacklist = NoBlacklist
    /\ window = NoWindow
    /\ threads = NoThreads

\* ------------------------------------------------- the running call
\* The class state a call reads and writes and the call's own results:
\* r is the value the last helper returned, exc the exception raised (None
\* while there is none).  nc is what the call meets in its environment:
\* chain, the blockchain name a Beem instance reports if the call has to
\* create one, and strict, whether the installed privex.helpers.dec_round
\* refuses dp = 0.
Frame(nc) ==
    [cache |-> cache, ins |-> steem_ins, shared |-> SharedInstance,
     trace |-> <<>>, sent |-> <<>>,
     j |-> NoTx, r |-> NoToken, exc |-> None, acct |-> "", nc |-> nc.chain,
     strict |-> nc.strict, caller |-> Caller(OwnModule, "send_token")]

Raise(s, name, acct) == [s EXCEPT !.exc = name, !.acct = acct]
Request(s, what) == [s EXCEPT !.trace = Append(@, what)]
Result(s, r) == [s EXCEPT !.r = r]
Bool(b) == [found |-> TRUE, yes |-> b]

\* custom_beem(nodes, network=...): a new Beem instance; the chain its nodes
\* serve is the environment's.
custom_beem(s) ==
    LET used == { s.ins[n].id : n \in Networks } \cup { s.shared.id }
        ids == 1..(Cardinality(Networks) + 2)
    IN  [made |-> TRUE, chain |-> s.nc,
         id |-> CHOOSE i \in ids \ used : \A k \in ids \ used : i <= k]

\* The steem property: the network's instance, created on first use.  With
\* use_shared_instances the first instance made becomes Beem's shared
\* instance; when a shared instance is in place already, the getter runs
\* "for k, v in cls._steem_ins", which iterates the keys of the dict, and
\* unpacking the key 'steem' into k, v raises ValueError.
steem(s) ==
    IF s.ins[client.network].made THEN s
    ELSE IF use_shared_instances
    THEN IF ~s.shared.made
         THEN LET made == custom_beem(s)
              IN  [s EXCEPT !.shared = made, !.ins[client.network] = made]
         ELSE Raise(s, "ValueError", "")
    ELSE [s EXCEPT !.ins[client.network] = custom_beem(s)]

\* ins_net != network of verify_network, both lower-cased.
NetworkDiffers(inst, network) == Lower(inst.chain) # Lower(network)

\* Variant: the names are read and compared, but a mismatch raises nothing.
verify_network_silent(s) ==
    Request(Request(steem(s), "get_blockchain_name"), "verify_network")

\* verify_network(): raises WrongNetwork unless the instance is on self.network.
verify_network(s) ==
    LET s0 == steem(s)
        s1 == Request(s0, "get_blockchain_name")
    IN  IF s0.exc # None THEN s0
        ELSE IF NetworkDiffers(s1.ins[client.network], client.network)
        THEN Raise(s1, "WrongNetwork", "")
        ELSE Request(s1, "verify_network")

\* _mod.startswith(_m + '.'): m is a proper ancestor of module mod.
IsSubmodule(mod, m) ==
    /\ Len(m) < Len(mod)
    /\ SubSeq(mod, 1, Len(m)) = m

\* Variant: only the exact module is matched.
exact_module_blacklisted(caller) ==
    \/ caller \in blacklist.paths
    \/ caller.function \in blacklist.funcs
    \/ caller.module \in blacklist.mods

\* _cache_blacklisted(): the caller's full path, its function name, its
\* module or an ancestor of its module is on a blacklist.
cache_blacklisted(caller) ==
    \/ caller \in blacklist.paths
    \/ caller.function \in blacklist.funcs
    \/ caller.module \in blacklist.mods
    \/ \E m \in blacklist.mods : IsSubmodule(caller.module, m)

\* Variant: what f returned is never stored.
se_cache_forgetful(s, key, called) ==
    IF cache_blacklisted(s.caller) THEN called
    ELSE IF CACHE /\ key \in DOMAIN s.cache THEN Result(s, s.cache[key])
    ELSE called

\* se_cache(cache_key, ...)(f): a blacklisted caller calls f directly.
\* Otherwise, with the switch on, r_cache returns the cached result of the
\* key if there is one, and otherwise calls f and stores what it returned,
\* unless that is None; with the switch off f is called directly.  An
\* exception of f propagates and nothing is stored.  called is the frame f
\* leaves when it is called on s.
se_cache(s, key, called) ==
    IF cache_blacklisted(s.caller) THEN called
    ELSE IF CACHE
    THEN IF key \in DOMAIN s.cache
         THEN Result(s, s.cache[key])
         ELSE IF called.exc # None \/ ~called.r.found THEN called
              ELSE [called EXCEPT !.cache = (key :> called.r) @@ @]
    ELSE called

RECURSIVE FindOne(_, _, _)
\* rpc.findone(contract='tokens', table='tokens', query=dict(symbol=...))
FindOne(rows, i, symbol) ==
    IF i > Len(rows) THEN NoToken
    ELSE IF rows[i].symbol = symbol THEN rows[i]
    ELSE FindOne(rows, i + 1, symbol)

\* Variant: the symbol is looked up as it was given.
get_token_verbatim(s, symbol) ==
    Result(Request(s, "rpc.findone"), FindOne(tokens, 1, symbol))

\* The body of get_token.
get_token_body(s, symbol) ==
    Result(Request(s, "rpc.findone"), FindOne(tokens, 1, Upper(symbol)))

\* get_token(symbol), wrapped by se_cache under pvx_seng:token:{symbol}.
get_token(s, symbol) ==
    se_cache(s, <<"token", symbol>>, get_token_body(s, symbol))

\* The native_token property, wrapped by se_cache under
\* pvx_seng:token:{native_coin}.  Its body calls self.get_token, itself
\* wrapped, and the caller of that inner call is native_token of this module;
\* the trace notes that the body ran.
native_token(s) ==
    LET body == get_token([Request(s, "native_token") EXCEPT
                               !.caller = Caller(OwnModule, "native_token")],
                          client.native_coin)
    IN  se_cache(s, <<"token", client.native_coin>>,
                 [body EXCEPT !.caller = s.caller])

\* get_balances(user): the user's rows of the balances table.
get_balances(user) == SelectSeq(balances, LAMBDA row : row.account = user)

RECURSIVE FirstBalance(_, _, _)
FirstBalance(rows, i, symbol) ==
    IF i > Len(rows) THEN Dec(0, 0)
    ELSE IF rows[i].symbol = symbol THEN rows[i].balance
    ELSE FirstBalance(rows, i + 1, symbol)

\* Variant: the rows are compared with the symbol as it was given.
get_token_balance_verbatim(user, symbol) ==
    FirstBalance(get_balances(user), 1, symbol)

\* get_token_balance(user, symbol): the first row for symbol.upper(), else 0.
get_token_balance(user, symbol) ==
    FirstBalance(get_balances(user), 1, Upper(symbol))

\* Variant: the rows request goes through the cache like a wrapped read.
find_balances_cached(s, user) ==
    IF CACHE /\ <<"balances", user>> \in DOMAIN s.cache THEN s
    ELSE [Request(s, "rpc.find") EXCEPT
              !.cache = (<<"balances", user>> :> Bool(TRUE)) @@ @]

\* The request behind get_balances: self.rpc.find('tokens', 'balances', ..),
\* made on every call (get_balances and get_token_balance are not wrapped).
find_balances(s, user) == Request(s, "rpc.find")

\* Variant: a missing account raises instead of answering false.
account_exists_or_raise(s, user) ==
    LET s1 == verify_network(s)
    IN  IF s1.exc # None THEN s1
        ELSE IF user \notin accounts
        THEN Raise(Request(s1, "get_account"), "AccountNotFound", user)
        ELSE Result(Request(s1, "get_account"), Bool(TRUE))

\* The body of account_exists.
account_exists_body(s, user) ==
    LET s1 == verify_network(s)
    IN  IF s1.exc # None THEN s1
        ELSE Result(Request(s1, "get_account"), Bool(user \in accounts))

\* account_exists(user), wrapped by se_cache under pvx_seng:account_exists:{user}.
account_exists(s, user) ==
    se_cache(s, <<"account_exists", user>>, account_exists_body(s, user))

\* Variant: the broadcast is sent again after the first acknowledgement.
custom_json_resend(s, id, custom, signer) ==
    LET s1 == Request(Request(steem(s), "custom_json"), "custom_json")
        op == [id |-> id, custom |-> custom, required_auths |-> <<signer>>,
               chain |-> s1.ins[client.network].chain]
    IN  [s1 EXCEPT !.sent = Append(Append(@, op), op),
                   !.j = Ack(AckSignatures)]

\* self.steem.custom_json(network_account, custom, [signer]): Beem signs and
\* broadcasts, and returns the signed transaction.
custom_json(s, id, custom, signer) ==
    LET s1 == Request(steem(s), "custom_json")
    IN  [s1 EXCEPT !.sent = Append(@, [id |-> id, custom |-> custom,
                                        required_auths |-> <<signer>>,
                                        chain |-> s1.ins[client.network].chain]),
                   !.j = Ack(AckSignatures)]

\* Variant: the two statements in the opposite order.
broadcast_then_verify(s, id, custom, signer) ==
    verify_network(custom_json(s, id, custom, signer))

\* self.verify_network() and then self.steem.custom_json(...), the last two
\* statements before the find_tx branch of each operation.
verified_broadcast(s, id, custom, signer) ==
    LET s1 == verify_network(s)
    IN  IF s1.exc # None THEN s1
        ELSE custom_json(s1, id, custom, signer)

\* A key the payload of an operation does not carry.
NoField == [units |-> 0, dp |-> 0]
NoCustom == [contractName |-> "", contractAction |-> "", symbol |-> "",
             to |-> "", quantity |-> NoField, price |-> NoField]

\* amount < Decimal(pow(10, -precision))
BelowPrecision(amount, precision) == DecLT(amount, MinUnit(precision))

\* Variant: amount >= balance.
ReachesBalance(amount, balance) == ~DecLT(amount, balance)

\* amount > balance of send_token
ExceedsBalance(amount, balance) == DecGT(amount, balance)

\* The account the sender's AccountNotFound message is formatted with.
SenderNotFoundNames(from_acc, to_acc) == to_acc

\* send_token up to and including the broadcast.
send_token(s, symbol, from_acc, to_acc, amountArg) ==
    LET s1 == get_token(s, symbol)
        t == s1.r
        amount == ToDecimal(amountArg)
    IN
    IF ~t.found THEN Raise(s1, "TokenNotFound", "")
    ELSE IF BelowPrecision(amount, t.precision)
    THEN Raise(s1, "ArithmeticError", "")
    ELSE
    LET s2 == find_balances(s1, from_acc)
        balance == get_token_balance(from_acc, symbol)
    IN
    IF ExceedsBalance(amount, balance)
    THEN Raise(s2, "NotEnoughBalance", from_acc)
    ELSE
    LET s3 == account_exists(s2, from_acc) IN
    IF s3.exc # None THEN s3
    ELSE IF ~s3.r.yes
    THEN Raise(s3, "AccountNotFound", SenderNotFoundNames(from_acc, to_acc))
    ELSE
    LET s4 == account_exists(s3, to_acc) IN
    IF s4.exc # None THEN s4
    ELSE IF ~s4.r.yes THEN Raise(s4, "AccountNotFound", to_acc)
    ELSE
    LET custom == [contractName |-> "tokens", contractAction |-> "transfer",
                   symbol |-> Upper(symbol), to |-> to_acc,
                   quantity |-> FormatFixed(amount, t.precision),
                   price |-> NoField]
    IN  verified_broadcast(s4, client.network_account, custom, from_acc)

\* issue_token up to and including the broadcast.
issue_token(s, symbol, to, amountArg) ==
    LET s1 == get_token(s, symbol)
        t == s1.r
        amount == ToDecimal(amountArg)
    IN
    IF ~t.found THEN Raise(s1, "TokenNotFound", "")
    ELSE IF BelowPrecision(amount, t.precision)
    THEN Raise(s1, "ArithmeticError", "")
    ELSE
    LET s2 == account_exists(s1, to) IN
    IF s2.exc # None THEN s2
    ELSE IF ~s2.r.yes THEN Raise(s2, "AccountNotFound", to)
    ELSE
    LET custom == [contractName |-> "tokens", contractAction |-> "issue",
                   symbol |-> Upper(symbol), to |-> to,
                   quantity |-> FormatFixed(amount, t.precision),
                   price |-> NoField]
    IN  verified_broadcast(s2, client.network_account, custom, t.issuer)

\* Variant: bal <= needed.
BalanceNotAbove(bal, needed) == ~DecLT(needed, bal)

\* bal < quantity and bal < total_native of place_order
BalanceBelow(bal, needed) == DecLT(bal, needed)

\* Variant: the price string is given the traded token's places.
TokenPlaces(t, nt) == t.precision

\* The precision the price of the payload is formatted with.
PricePlaces(t, nt) == nt.precision

\* place_order up to and including the broadcast.
place_order(s, user, actionArg, symbolArg, quantityArg, priceArg) ==
    LET action == Lower(actionArg)
        symbol == Upper(symbolArg)
    IN
    IF action \notin {"buy", "sell"} THEN Raise(s, "AttributeError", "")
    ELSE
    LET s1 == get_token(s, symbol)
        t == s1.r
        quantity0 == conv_dec(quantityArg)
        price0 == conv_dec(priceArg)
    IN
    IF ~t.found THEN Raise(s1, "TokenNotFound", "")
    ELSE
    LET prec == t.precision IN
    IF BelowPrecision(quantity0, prec) \/ BelowPrecision(price0, prec)
    THEN Raise(s1, "ArithmeticError", "")
    ELSE IF s.strict /\ prec <= 0 THEN Raise(s1, "ArithmeticError", "dec_round")
    ELSE
    LET quantity == dec_round(quantity0, prec)
        price == dec_round(price0, prec)
        s2 == find_balances(s1, user)
        \* the buy branch reads the native_token property before it compares
        s3 == IF action = "sell" THEN s2 ELSE native_token(s2)
        bal == IF action = "sell" THEN get_token_balance(user, symbol)
               ELSE get_token_balance(user, client.native_coin)
    IN
    IF action = "buy" /\ ~s3.r.found THEN Raise(s3, "AttributeError", "")
    ELSE IF action = "buy" /\ s.strict /\ s3.r.precision <= 0
    THEN Raise(s3, "ArithmeticError", "dec_round")
    ELSE
    LET needed == IF action = "sell" THEN quantity
                  ELSE dec_round(DecMul(quantity, price), s3.r.precision)
    IN
    IF BalanceBelow(bal, needed) THEN Raise(s3, "NotEnoughBalance", user)
    ELSE
    LET s4 == native_token(s3)
        nt == s4.r
    IN
    IF ~nt.found THEN Raise(s4, "AttributeError", "")
    ELSE
    LET custom == [contractName |-> "market", contractAction |-> action,
                   symbol |-> symbol, to |-> "",
                   quantity |-> FormatFixed(quantity, prec),
                   price |-> FormatFixed(price, PricePlaces(t, nt))]
    IN  verified_broadcast(s4, client.network_account, custom, user)

\* sorted(tx["signatures"]) == sorted(tx_data["signatures"])
SameSignatures(a, b) ==
    SortSeq(a, LAMBDA x, y : x < y) = SortSeq(b, LAMBDA x, y : x < y)

RECURSIVE ScanTransactions(_, _, _)
\* for tx in block.transactions: the first transaction with the signatures
ScanTransactions(txs, i, signatures) ==
    IF i > Len(txs) THEN NoTx
    ELSE IF SameSignatures(txs[i].signatures, signatures) THEN txs[i]
    ELSE ScanTransactions(txs, i + 1, signatures)

RECURSIVE ScanBlocks(_, _, _, _)
\* for block in chain.blocks(start=n, stop=stop)
ScanBlocks(chain, n, stop, signatures) ==
    IF n > stop THEN NoTx
    ELSE LET hit == ScanTransactions(chain[n], 1, signatures)
         IN  IF hit.found THEN hit
             ELSE ScanBlocks(chain, n + 1, stop, signatures)

\* Variant: the window starts one block early.
ScanStartEarly(current_num) == current_num - last_blocks - 1

\* First and last block number find_steem_tx asks chain.blocks for.
ScanStart(current_num) == current_num - last_blocks
ScanStop(current_num) == current_num + blocks_ahead

\* find_steem_tx(tx_data): current_num is the head block number read once,
\* chain the blocks as chain.blocks delivers them.
find_steem_tx(tx_data, current_num, chain) ==
    ScanBlocks(chain, ScanStart(current_num), ScanStop(current_num),
               tx_data.signatures)

\* ------------------------------------------------------------ inputs
\* The traded token's precision in the store.
Precision == tokens[1].precision

Symbols == {"tkn", "NOPE"}
Senders == {"alice", "bob", "ghost"}
Receivers == {"alice", "ghost"}
Actions == {"buy", "SELL", "Hold"}

\* Amounts around the token's unit u = 10^(-p): u, just below u, 2u, 3u,
\* u/10, 1.5u, and the float pow(10, -p).
AmountArgs(p) ==
    { DecimalArg(Dec(1, p)), DecimalArg(Nudge(Dec(1, p), -2)),
      DecimalArg(Dec(2, p)), DecimalArg(Dec(3, p)),
      DecimalArg(Dec(1, p + 1)), DecimalArg(Dec(15, p + 1)), FloatArg(p) }

\* The price at which one unit of the token costs one unit of the native
\* coin (1 when the token is the coarser of the two).
UnitPrice(p) ==
    IF p >= NativePrecision THEN Dec(Pow10(p - NativePrecision), 0) ELSE Dec(1, 0)

\* Prices: the token's unit, the unit price, and 1.25 times the unit price.
PriceArgs(p) ==
    { DecimalArg(Dec(1, p)), DecimalArg(UnitPrice(p)),
      DecimalArg(Dec(125 * UnitPrice(p).c, 2)) }

QuantityArgs(p) ==
    { DecimalArg(Dec(1, p)), DecimalArg(Dec(2, p)), DecimalArg(Dec(3, p)),
      DecimalArg(Dec(1, p + 1)), DecimalArg(Dec(15, p + 1)) }

\* What a call can meet in its environment (see Frame).
Env(op) ==
    { [chain |-> c, strict |-> b] :
        c \in (IF steem_ins[client.network].made THEN {""} ELSE ChainNames),
        b \in (IF op = "place_order" /\ Precision = 0 THEN BOOLEAN ELSE {FALSE}) }

\* Blocks the model lets transactions lie in: one before the window, its
\* first block, the head, its last block, one after the window.
Spots(current_num) ==
    { ScanStart(current_num) - 1, ScanStart(current_num), current_num,
      ScanStop(current_num), ScanStop(current_num) + 1 }

EmptyChain(current_num) ==
    [n \in (ScanStart(current_num) - 1)..(ScanStop(current_num) + 1) |-> <<>>]

Put(chain, b, id, signatures) ==
    [chain EXCEPT ![b] = Append(@, MinedTx(id, signatures, b))]

\* The chains of the model: empty; the broadcast transaction (id 1) mined in
\* one spot with its signatures in either order, alone or behind another
\* user's transaction (id 2); and two transactions carrying the signatures
\* (ids 1 and 3).
Chains(current_num) ==
    { EmptyChain(current_num) }
    \cup { Put(EmptyChain(current_num), b, 1, sg) :
             b \in Spots(current_num), sg \in { <<2, 1>>, <<1, 2>> } }
    \cup { Put(Put(EmptyChain(current_num), b, 2, fs), b, 1, <<1, 2>>) :
             b \in Spots(current_num), fs \in { <<1>>, <<1, 3>> } }
    \cup { Put(Put(EmptyChain(current_num), b, 1, <<1, 2>>), b, 3, <<2, 1>>) :
             b \in Spots(current_num) }
    \cup { Put(Put(EmptyChain(current_num), ScanStop(current_num), 1, <<2, 1>>),
                b, 3, <<1, 2>>) :
             b \in Spots(current_num) }

\* ----------------------------------------------------------- actions
\* The state a call leaves when it raises or has broadcast.
Leave(s, c) ==
    /\ cache' = s.cache
    /\ steem_ins' = s.ins
    /\ SharedInstance' = s.shared
    /\ trace' = s.trace
    /\ sent' = s.sent
    /\ j' = s.j
    /\ exc' = [name |-> s.exc, acct |-> s.acct]
    /\ pc' = IF s.exc # None THEN "raised" ELSE "broadcast"
    /\ call' = c
    /\ UNCHANGED <<world, ret, lookup>>

SendToken(symbol, from_acc, to_acc, amountArg, nc) ==
    /\ pc = "idle"
    /\ Leave(send_token(Frame(nc), symbol, from_acc, to_acc, amountArg),
             [NoCall EXCEPT !.op = "send_token", !.symbol = symbol,
                            !.user = from_acc, !.to = to_acc,
                            !.amount = amountArg])

IssueToken(symbol, to, amountArg, nc) ==
    /\ pc = "idle"
    /\ Leave(issue_token(Frame(nc), symbol, to, amountArg),
             [NoCall EXCEPT !.op = "issue_token", !.symbol = symbol,
                            !.to = to, !.amount = amountArg])

PlaceOrder(user, action, symbol, quantityArg, priceArg, nc) ==
    /\ pc = "idle"
    /\ Leave(place_order(Frame(nc), user, action, symbol, quantityArg, priceArg),
             [NoCall EXCEPT !.op = "place_order", !.symbol = symbol,
                            !.user = user, !.action = action,
                            !.amount = quantityArg, !.price = priceArg])

\* Variant: with find_tx set the lookup's result is handed back as it is.
ReturnedLookup(op, ack, find_tx, tx) ==
    IF op = "place_order"
    THEN [kind |-> "SEPlacedOrder", tx |-> NoTx, broadcast_result |-> ack,
          network_transaction |-> IF find_tx THEN tx ELSE NoTx]
    ELSE [kind |-> "dict", tx |-> IF find_tx THEN tx ELSE ack,
          broadcast_result |-> NoTx, network_transaction |-> NoTx]

\* What the operation hands back: send_token and issue_token the dict,
\* place_order the SEPlacedOrder.
Returned(op, ack, find_tx, tx) ==
    IF op = "place_order"
    THEN [kind |-> "SEPlacedOrder", tx |-> NoTx, broadcast_result |-> ack,
          network_transaction |-> IF find_tx THEN tx ELSE NoTx]
    ELSE [kind |-> "dict",
          tx |-> IF find_tx /\ tx.found THEN tx ELSE ack,
          broadcast_result |-> NoTx, network_transaction |-> NoTx]

\* if find_tx: the argument find_tx is read here for the first time, and
\* here the model draws it.  Unset, the operation returns the
\* acknowledgement without a lookup.
ReturnAck(find_tx) ==
    /\ pc = "broadcast"
    /\ ~find_tx
    /\ call' = [call EXCEPT !.find_tx = find_tx]
    /\ ret' = Returned(call.op, j, find_tx, NoTx)
    /\ pc' = "returned"
    /\ UNCHANGED <<world, cache, steem_ins, SharedInstance, exc, trace, sent, j, lookup>>

\* if find_tx: set, the operation enters find_steem_tx, which reads the head
\* block number once.  The arguments of the operation have gone into the
\* broadcast; what is left of the call is the acknowledgement.
FindStart(find_tx, current_num) ==
    /\ pc = "broadcast"
    /\ find_tx
    /\ call' = [NoCall EXCEPT !.op = call.op, !.find_tx = find_tx]
    /\ lookup' = [NoLookup EXCEPT !.current_num = current_num]
    /\ trace' = Append(trace, "find_steem_tx")
    /\ sent' = [i \in 1..Len(sent) |-> [sent[i] EXCEPT !.custom = NoCustom]]
    /\ pc' = "lookup"
    /\ UNCHANGED <<world, cache, steem_ins, SharedInstance, exc, j, ret>>

\* find_steem_tx scans the blocks chain.blocks delivers and returns; the
\* operation returns what it found, or the acknowledgement.
LookupAndReturn(chain) ==
    /\ pc = "lookup"
    /\ lookup' = [lookup EXCEPT !.done = TRUE, !.chain = chain,
                                !.result = find_steem_tx(j, lookup.current_num, chain)]
    /\ ret' = Returned(call.op, j, call.find_tx, lookup'.result)
    /\ pc' = "returned"
    /\ UNCHANGED <<world, cache, steem_ins, SharedInstance, call, exc, trace, sent, j>>

\* The caller has the result or the exception; the next call can start.
Finish ==
    /\ pc \in {"raised", "returned"}
    /\ pc' = "idle"
    /\ call' = NoCall
    /\ exc' = NoExc
    /\ trace' = <<>>
    /\ sent' = <<>>
    /\ j' = NoTx
    /\ ret' = NoRet
    /\ lookup' = NoLookup
    /\ UNCHANGED <<world, cache, steem_ins, SharedInstance>>

\* A cached result reaches its time-to-live and is dropped.
CacheExpire(key) ==
    /\ pc = "idle"
    /\ key \in DOMAIN cache
    /\ cache' = [k \in DOMAIN cache \ {key} |-> cache[k]]
    /\ UNCHANGED <<world, steem_ins, SharedInstance, frame>>

\* Variant: the new instance is stored for every network.
set_beem_everywhere(self_network, network, chainName) ==
    [n \in Networks |->
        custom_beem(Frame([chain |-> chainName, strict |-> FALSE]))]

\* The table set_beem(nodes, network) of a client of self_network leaves: a
\* new instance in the entry of the network given, or of the client's
\* network when none is given (empty_if).
set_beem_table(self_network, network, chainName) ==
    [steem_ins EXCEPT
        ![IF network = None THEN self_network ELSE network] =
            custom_beem(Frame([chain |-> chainName, strict |-> FALSE]))]

\* set_beem(nodes, network), called between two operations.
set_beem(network, chainName) ==
    /\ pc = "idle"
    /\ steem_ins' = set_beem_table(client.network, network, chainName)
    /\ UNCHANGED <<world, cache, SharedInstance, frame>>

\* The arguments of the model's calls.  A call for a symbol that is no
\* token, or an order that is neither buy nor sell, fails before it reads
\* its other arguments, so one call of each kind stands for all.
SendArgs ==
    { [symbol |-> "tkn", from_acc |-> f, to_acc |-> r, amount |-> a] :
        f \in Senders, r \in Receivers, a \in AmountArgs(Precision) }
    \cup { [symbol |-> "NOPE", from_acc |-> "alice", to_acc |-> "ghost",
            amount |-> DecimalArg(Dec(1, Precision + 1))] }

IssueArgs ==
    { [symbol |-> "tkn", to |-> r, amount |-> a] :
        r \in Receivers, a \in AmountArgs(Precision) }
    \cup { [symbol |-> "NOPE", to |-> "ghost",
            amount |-> DecimalArg(Dec(1, Precision + 1))] }

OrderArgs ==
    { [user |-> u, action |-> a, symbol |-> "tkn", quantity |-> q, price |-> pr] :
        u \in Senders, a \in {"buy", "SELL"}, q \in QuantityArgs(Precision),
        pr \in PriceArgs(Precision) }
    \cup { [user |-> "bob", action |-> a, symbol |-> sy,
            quantity |-> DecimalArg(Dec(1, Precision + 1)),
            price |-> DecimalArg(Dec(1, Precision))] :
             a \in Actions, sy \in Symbols }

Next ==
    \/ \E a \in SendArgs, nc \in Env("send_token") :
            SendToken(a.symbol, a.from_acc, a.to_acc, a.amount, nc)
    \/ \E a \in IssueArgs, nc \in Env("issue_token") :
            IssueToken(a.symbol, a.to, a.amount, nc)
    \/ \E a \in OrderArgs, nc \in Env("place_order") :
            PlaceOrder(a.user, a.action, a.symbol, a.quantity, a.price, nc)
    \/ \E find_tx \in BOOLEAN : ReturnAck(find_tx)
    \/ \E find_tx \in BOOLEAN : FindStart(find_tx, HeadAtCall)
    \/ \E chain \in Chains(HeadAtCall) : LookupAndReturn(chain)
    \/ Finish
    \/ \E key \in DOMAIN cache : CacheExpire(key)
    \/ \E chainName \in ChainNames : set_beem(None, chainName)

Spec == Init /\ [][Next]_vars

\* ============================================================= properties
\* The call has run to its outcome and still holds its arguments: it raised,
\* or custom_json has returned.
Decided == pc \in {"raised", "broadcast"}

Requested(what) == \E i \in DOMAIN trace : trace[i] = what

PrecisionFailed == exc.name = "ArithmeticError" /\ exc.acct = ""

\* The store, read directly: whether the symbol is a token, its precision,
\* and a user's balance of it (0 without a row).
TokenExists(symbol) == \E i \in DOMAIN tokens : tokens[i].symbol = Upper(symbol)
PrecisionOf(symbol) ==
    tokens[CHOOSE i \in DOMAIN tokens : tokens[i].symbol = Upper(symbol)].precision
BalanceOf(user, symbol) ==
    LET rows == { i \in DOMAIN balances : /\ balances[i].account = user
                                          /\ balances[i].symbol = Upper(symbol) }
    IN  IF rows = {} THEN Dec(0, 0)
        ELSE balances[CHOOSE i \in rows : \A k \in rows : i <= k].balance

\* The instance of the client's network reports another chain's name.
Mismatch ==
    /\ steem_ins[client.network].made
    /\ Lower(steem_ins[client.network].chain) # Lower(client.network)

\* ---- C1
\* C1: in send_token, issue_token and place_order a call that ends with an
\* exception (TokenNotFound, the precision ArithmeticError, NotEnoughBalance,
\* AccountNotFound, WrongNetwork, the invalid-action error) has invoked
\* custom_json zero times.
C1_NoBroadcastInFailedCall ==
    exc.name # None =>
        /\ pc = "raised"
        /\ exc.name \in {"TokenNotFound", "ArithmeticError", "NotEnoughBalance",
                         "AccountNotFound", "WrongNetwork", "AttributeError"}
        /\ sent = <<>>
        /\ ~Requested("custom_json")

\* A call that passed every validation of its arguments and failed at the
\* network check, the last statement before the broadcast.
C1_Witness ==
    /\ pc = "raised"
    /\ call.op = "issue_token"
    /\ exc.name = "WrongNetwork"
    /\ <<"account_exists", call.to>> \in DOMAIN cache

\* ---- C2
\* C2 as stated: whenever the instance's blockchain name differs from the
\* client's network, the call fails with WrongNetwork and nothing is
\* broadcast.
C2_Original ==
    (call.op # "" /\ Mismatch) =>
        /\ pc = "raised"
        /\ exc.name = "WrongNetwork"
        /\ sent = <<>>

\* C2, amended: custom_json is invoked only directly after verify_network has
\* succeeded in the same call, and on an instance of the client's network;
\* when the instance's name differs (case ignored) the call fails and
\* nothing is broadcast, and it fails with WrongNetwork as soon as it gets to
\* ask the instance for its name, that is unless an earlier validation of
\* the arguments has failed with its own error.
C2_BroadcastOnlyVerified ==
    /\ \A k \in DOMAIN trace :
         trace[k] = "custom_json" => (k > 1 /\ trace[k - 1] = "verify_network")
    /\ \A i \in DOMAIN sent : Lower(sent[i].chain) = Lower(client.network)
    /\ (call.op # "" /\ Mismatch) =>
         /\ pc = "raised"
         /\ sent = <<>>
         /\ exc.name \in {"WrongNetwork", "TokenNotFound", "ArithmeticError",
                          "NotEnoughBalance", "AccountNotFound", "AttributeError"}
         /\ Requested("get_blockchain_name") => exc.name = "WrongNetwork"

\* A transfer with valid arguments on an instance of the other chain.
C2_Witness ==
    /\ pc = "raised"
    /\ call.op = "send_token"
    /\ Mismatch
    /\ exc.name = "WrongNetwork"
    /\ call.user \in accounts /\ call.to \in accounts

\* ---- C3
\* The preconditions of send_token a call violates, by their place in the
\* order, and the error of each.
Violated ==
    { n \in 1..5 :
        \/ n = 1 /\ ~TokenExists(call.symbol)
        \/ n = 2 /\ TokenExists(call.symbol)
                 /\ DecLT(ToDecimal(call.amount), Dec(1, PrecisionOf(call.symbol)))
        \/ n = 3 /\ DecGT(ToDecimal(call.amount), BalanceOf(call.user, call.symbol))
        \/ n = 4 /\ call.user \notin accounts
        \/ n = 5 /\ call.to \notin accounts }

ErrorOf(n) ==
    CASE n = 1 -> "TokenNotFound"
      [] n = 2 -> "ArithmeticError"
      [] n = 3 -> "NotEnoughBalance"
      [] OTHER -> "AccountNotFound"

\* C3: a send_token call that violates more than one precondition raises the
\* error of the earliest violated one in the order token exists, amount >=
\* minimum unit, balance >= amount, sender exists, receiver exists.
C3_EarliestCheckDecides ==
    (Decided /\ call.op = "send_token" /\ Cardinality(Violated) > 1) =>
        exc.name = ErrorOf(CHOOSE n \in Violated : \A m \in Violated : n <= m)

\* A call with several violations that does raise the earliest one's error.
C3_Witness ==
    /\ pc = "raised"
    /\ call.op = "send_token"
    /\ Violated = {3, 4, 5}
    /\ exc.name = "NotEnoughBalance"

\* ---- C4
\* C4: the AccountNotFound of send_token and issue_token names the account
\* that does not exist: the sender when the sender is missing, else the
\* receiver.
C4_NamesMissingAccount ==
    (pc = "raised" /\ exc.name = "AccountNotFound") =>
        /\ exc.acct \notin accounts
        /\ exc.acct = IF call.op = "send_token" /\ call.user \notin accounts
                      THEN call.user ELSE call.to

\* The sender is missing and the receiver exists.
C4_Witness ==
    /\ pc = "raised"
    /\ call.op = "send_token"
    /\ exc.name = "AccountNotFound"
    /\ call.user \notin accounts
    /\ call.to \in accounts

\* ---- C5
\* C5: for an existing token of precision p, send_token with an amount below
\* 10^-p fails with the precision ArithmeticError, whatever the balance.
C5_BelowUnitRejected ==
    ( /\ Decided /\ call.op = "send_token" /\ TokenExists(call.symbol)
      /\ DecLT(ToDecimal(call.amount), Dec(1, PrecisionOf(call.symbol))) ) =>
        PrecisionFailed

\* An amount a tenth of the unit is rejected.
C5_Witness ==
    /\ pc = "raised"
    /\ call.op = "send_token"
    /\ PrecisionFailed
    /\ call.amount = DecimalArg(Dec(1, Precision + 1))

\* ---- C6
\* C6: an amount exactly equal to the token's smallest unit 10^-p passes the
\* precision check of send_token, issue_token and place_order (the price of
\* an order being at least the unit too).
C6_UnitPasses ==
    ( /\ Decided /\ call.op # "" /\ TokenExists(call.symbol)
      /\ call.amount = DecimalArg(Dec(1, PrecisionOf(call.symbol)))
      /\ call.op = "place_order" =>
            ~DecLT(conv_dec(call.price), Dec(1, PrecisionOf(call.symbol))) ) =>
        ~PrecisionFailed

\* An issue of exactly one unit that went out.
C6_Witness ==
    /\ pc = "broadcast"
    /\ call.op = "issue_token"
    /\ call.amount = DecimalArg(Dec(1, Precision))

\* ---- C7
\* C7: for an existing token and an amount that passed the precision check,
\* send_token raises NotEnoughBalance exactly when the amount is strictly
\* greater than the sender's balance of the symbol (0 without a row); an
\* amount equal to the balance goes on to the account checks.
C7_BalanceBoundary ==
    ( /\ Decided /\ call.op = "send_token"
      /\ exc.name # "TokenNotFound" /\ ~PrecisionFailed ) =>
        /\ TokenExists(call.symbol)
        /\ exc.name = "NotEnoughBalance"
             <=> DecGT(ToDecimal(call.amount), BalanceOf(call.user, call.symbol))
        /\ exc.name = "NotEnoughBalance" => exc.acct = call.user

\* The whole balance is sent, and is broadcast.
C7_Witness ==
    /\ pc = "broadcast"
    /\ call.op = "send_token"
    /\ ToDecimal(call.amount) = BalanceOf(call.user, call.symbol)
    /\ sent[1].custom.quantity = FormatFixed(BalanceOf(call.user, call.symbol), Precision)

\* ---- C8
\* What an order needs and what it is compared with: a sell the quantity
\* against the balance of the traded symbol, a buy quantity x price, rounded
\* down to the native coin's places, against the balance of the native coin.
\* (Quantity and price enter rounded down to the token's places.)
OrderUnrounded ==
    LET places == PrecisionOf(call.symbol)
    IN  DecMul(DecRoundDown(conv_dec(call.amount), places),
               DecRoundDown(conv_dec(call.price), places))
OrderNeeds ==
    IF Lower(call.action) = "sell"
    THEN DecRoundDown(conv_dec(call.amount), PrecisionOf(call.symbol))
    ELSE DecRoundDown(OrderUnrounded, PrecisionOf(client.native_coin))
OrderFunds ==
    IF Lower(call.action) = "sell" THEN BalanceOf(call.user, call.symbol)
    ELSE BalanceOf(call.user, client.native_coin)

\* C8: an order that gets to its balance check raises NotEnoughBalance
\* exactly when the balance of the branch's coin is below the branch's
\* requirement: equal passes, less fails, and the other coin's balance does
\* not enter.
C8_OrderBalanceBranch ==
    ( /\ Decided /\ call.op = "place_order"
      /\ exc.name \notin {"AttributeError", "TokenNotFound", "ArithmeticError"} ) =>
        /\ exc.name = "NotEnoughBalance" <=> DecLT(OrderFunds, OrderNeeds)
        /\ exc.name = "NotEnoughBalance" => exc.acct = call.user

\* A buy whose cost equals the native balance only after the rounding, by a
\* user who holds nothing of the traded token.
C8_Witness ==
    /\ pc = "broadcast"
    /\ call.op = "place_order"
    /\ Lower(call.action) = "buy"
    /\ OrderNeeds = OrderFunds
    /\ DecLT(OrderFunds, OrderUnrounded)
    /\ BalanceOf(call.user, call.symbol) = Dec(0, 0)

\* ---- C9
\* C9: send_token and issue_token return, with find_tx set, the mined
\* transaction when the lookup found one and the acknowledgement when it did
\* not, and with find_tx unset the acknowledgement, without a lookup;
\* place_order records the acknowledgement as broadcast_result in either
\* case and the lookup's result as network_transaction only with find_tx
\* set.
C9_FindTxDecidesResult ==
    pc = "returned" =>
        /\ call.find_tx <=> lookup.done
        /\ call.find_tx <=> Requested("find_steem_tx")
        /\ call.op \in {"send_token", "issue_token"} =>
             /\ ret.kind = "dict"
             /\ ret.tx = IF call.find_tx /\ lookup.result.found
                         THEN lookup.result ELSE j
        /\ call.op = "place_order" =>
             /\ ret.kind = "SEPlacedOrder"
             /\ ret.broadcast_result = j
             /\ ret.network_transaction =
                  IF call.find_tx THEN lookup.result ELSE NoTx

\* A transfer whose lookup found nothing returns the acknowledgement.
C9_Witness ==
    /\ pc = "returned"
    /\ call.op = "send_token"
    /\ call.find_tx
    /\ ~lookup.result.found
    /\ ret.tx = Ack(AckSignatures)

\* ---- C10
\* The transactions of the window head-15 .. head+5 that carry the
\* broadcast's set of signatures, by block and place in the block.
SignatureSet(tx) == { tx.signatures[i] : i \in DOMAIN tx.signatures }
Window == (lookup.current_num - last_blocks)..(lookup.current_num + blocks_ahead)
Matches ==
    { at \in UNION { { <<b, i>> : i \in DOMAIN lookup.chain[b] } : b \in Window } :
        SignatureSet(lookup.chain[at[1]][at[2]]) = SignatureSet(j) }
FirstMatch ==
    CHOOSE at \in Matches :
        \A o \in Matches : at[1] < o[1] \/ (at[1] = o[1] /\ at[2] <= o[2])

\* C10: find_steem_tx, with the head read once, returns the first
\* transaction in scan order of the blocks head-15 .. head+5 whose set of
\* signatures is the broadcast's, and None when the window holds none; what
\* it returns never has other signatures.
C10_FirstMatchInWindow ==
    lookup.done =>
        /\ lookup.current_num = HeadAtCall
        /\ lookup.result.found <=> Matches # {}
        /\ lookup.result.found =>
             /\ lookup.result = lookup.chain[FirstMatch[1]][FirstMatch[2]]
             /\ SignatureSet(lookup.result) = SignatureSet(j)

\* Two transactions carry the signatures, in another order than the
\* acknowledgement: the one put on the chain later lies in the window's
\* first block and is returned.
C10_Witness ==
    /\ lookup.done
    /\ Cardinality(Matches) = 2
    /\ lookup.result.transaction_id = 3
    /\ lookup.result.block_num = lookup.current_num - last_blocks
    /\ lookup.result.signatures # j.signatures

\* ---- C11
\* How often the call has made a request.
Count(what) == Cardinality({ i \in DOMAIN trace : trace[i] = what })

\* C11: a call of send_token, issue_token or place_order invokes custom_json
\* at most once and find_steem_tx at most once; a lookup that found nothing
\* is not repeated, and the step that failed a call was made once.
C11_AtMostOnce ==
    /\ Len(sent) <= 1
    /\ Count("custom_json") = Len(sent)
    /\ Count("find_steem_tx") <= 1
    /\ pc \in {"lookup", "returned"} => Len(sent) = 1
    /\ (pc = "returned" /\ call.find_tx /\ ~lookup.result.found) =>
          Count("find_steem_tx") = 1
    /\ exc.name = "TokenNotFound" => Count("rpc.findone") = 1
    /\ exc.name = "NotEnoughBalance" => Count("rpc.find") = 1
    /\ exc.name = "WrongNetwork" => Count("get_blockchain_name") = 1
    /\ exc.name = "AccountNotFound" => Count("get_account") <= 2

\* An order was broadcast and its lookup found nothing.
C11_Witness ==
    /\ pc = "returned"
    /\ call.op = "place_order"
    /\ call.find_tx
    /\ ~lookup.result.found
    /\ Count("custom_json") = 1
    /\ Count("find_steem_tx") = 1


\* ------------------------------------------------- the reading calls
\* A second specification: callers outside the library read tokens,
\* balances and accounts through the wrapped methods.
MaxCalls == 2

\* The callers of the reads: app.jobs.sync and web.view.
Callers == { Caller(<<"app", "jobs">>, "sync"), Caller(<<"web">>, "view") }

\* Blacklists an application sets: none, a full path, a function name, a
\* module, an ancestor module.
Blacklists ==
    { NoBlacklist,
      [NoBlacklist EXCEPT !.paths = {Caller(<<"app", "jobs">>, "sync")}],
      [NoBlacklist EXCEPT !.funcs = {"sync"}],
      [NoBlacklist EXCEPT !.mods = {<<"app", "jobs">>}],
      [NoBlacklist EXCEPT !.mods = {<<"app">>}] }

ReadSymbols == {"tkn", "TKN", "abc", "NOPE"}
ReadEnv == { [chain |-> c, strict |-> FALSE] :
               c \in (IF steem_ins[client.network].made THEN {""} ELSE ChainNames) }

\* The stores of the reads: TKN is a token or is none; ABC is stored under
\* the symbol the row carries, in upper case or not.
InitReads ==
    /\ client = NewClient("HIVE")
    /\ \E p \in {0, NativePrecision}, stored \in {"ABC", "Abc"} :
         /\ tokens \in { << TokenRow("TKN", "alice", p), TokenRow(stored, "bob", 0) >>,
                         << TokenRow(stored, "bob", p) >> }
         /\ balances =
              << [account |-> "alice", symbol |-> stored, balance |-> Dec(5, p)],
                 [account |-> "bob", symbol |-> "TKN", balance |-> Dec(1, p)],
                 [account |-> "alice", symbol |-> "TKN", balance |-> Dec(2, p)],
                 [account |-> "alice", symbol |-> "TKN", balance |-> Dec(3, p)] >>
    /\ accounts = {"alice", "bob"}
    /\ CACHE \in BOOLEAN
    /\ blacklist \in Blacklists
    /\ window = NoWindow
    /\ threads = NoThreads
    /\ cache = EmptyCache
    /\ steem_ins = [n \in Networks |-> NoInstance]
    /\ use_shared_instances = FALSE
    /\ SharedInstance = NoInstance
    /\ pc = "idle"
    /\ call = NoCall
    /\ exc = NoExc
    /\ trace = <<>>
    /\ sent = <<>>
    /\ j = NoTx
    /\ ret = NoRet
    /\ lookup = NoLookup

\* The calls on key since its time-to-live last ran out.
WindowOf(key) == IF key \in DOMAIN window THEN window[key] ELSE <<>>

\* The number of calls the windows hold.
OpenCalls ==
    Cardinality(UNION { { <<k, i>> : i \in DOMAIN window[k] } : k \in DOMAIN window })

\* A wrapped read returns or raises; the window of its key records who
\* called, whether the cache held the key, whether the wrapped function
\* ran, whether the call changed the cache, and whether it asked the remote.
LeaveRead(s, c, key, kind) ==
    /\ cache' = s.cache
    /\ steem_ins' = s.ins
    /\ SharedInstance' = s.shared
    /\ trace' = s.trace
    /\ exc' = [name |-> s.exc, acct |-> s.acct]
    /\ pc' = IF s.exc # None THEN "raised" ELSE "returned"
    /\ ret' = IF s.exc # None THEN NoRet ELSE [kind |-> kind, value |-> s.r]
    /\ call' = c
    /\ window' = (key :> Append(WindowOf(key),
                                [caller |-> s.caller,
                                 op |-> c.op,
                                 held |-> key \in DOMAIN cache,
                                 invoked |-> s.trace # <<>>,
                                 wrote |-> s.cache # cache,
                                 remote |-> \E i \in DOMAIN s.trace :
                                                s.trace[i] # "native_token",
                                 raised |-> s.exc # None,
                                 none |-> s.exc = None /\ ~s.r.found])) @@ window
    /\ UNCHANGED <<client, tokens, balances, accounts, CACHE, use_shared_instances, blacklist,
                   threads, sent, j, lookup>>

\* An outside caller calls get_token(symbol).
GetToken(symbol, caller, nc) ==
    /\ pc = "idle"
    /\ OpenCalls < MaxCalls
    /\ LeaveRead(get_token([Frame(nc) EXCEPT !.caller = caller], symbol),
                 [NoCall EXCEPT !.op = "get_token", !.symbol = symbol],
                 <<"token", symbol>>, "Token")

\* An outside caller calls account_exists(user).
AccountExists(user, caller, nc) ==
    /\ pc = "idle"
    /\ OpenCalls < MaxCalls
    /\ LeaveRead(account_exists([Frame(nc) EXCEPT !.caller = caller], user),
                 [NoCall EXCEPT !.op = "account_exists", !.user = user],
                 <<"account_exists", user>>, "bool")

\* get_token_balance(user, symbol), which no cache wraps.
GetTokenBalance(user, symbol) ==
    /\ pc = "idle"
    /\ pc' = "returned"
    /\ call' = [NoCall EXCEPT !.op = "get_token_balance", !.user = user,
                              !.symbol = symbol]
    /\ trace' = <<"rpc.find">>
    /\ ret' = [kind |-> "Decimal", value |-> get_token_balance(user, symbol)]
    /\ UNCHANGED <<world, cache, steem_ins, SharedInstance, exc, sent, j, lookup>>

\* The time-to-live of key runs out: its cached result, if one is held, is
\* dropped, and a new window begins.
TimeToLive(key) ==
    /\ pc = "idle"
    /\ cache' = [k \in DOMAIN cache \ {key} |-> cache[k]]
    /\ window' = [k \in DOMAIN window \ {key} |-> window[k]]
    /\ UNCHANGED <<client, tokens, balances, accounts, CACHE, use_shared_instances, blacklist,
                   threads, steem_ins, SharedInstance, frame>>

NextReads ==
    \/ \E symbol \in {"tkn", "abc", "NOPE"}, caller \in Callers, nc \in ReadEnv :
            GetToken(symbol, caller, nc)
    \/ \E user \in {"alice", "ghost"}, caller \in Callers, nc \in ReadEnv :
            AccountExists(user, caller, nc)
    \/ \E user \in {"alice", "ghost", "bob"}, symbol \in ReadSymbols :
            GetTokenBalance(user, symbol)
    \/ \E key \in DOMAIN window : TimeToLive(key)
    \/ Finish

SpecReads == InitReads /\ [][NextReads]_vars


\* ------------------------------------------------- claims on the reads
\* The rows of the tokens table that carry the symbol.
TokenRows(symbol) == { i \in DOMAIN tokens : tokens[i].symbol = symbol }

\* C12: get_token(symbol) does not raise; it returns None exactly when the
\* tokens table has no row whose symbol is the upper-cased argument, and
\* otherwise a Token with the symbol, issuer and precision of such a row.
C12_GetTokenByUpperSymbol ==
    call.op = "get_token" =>
        /\ pc = "returned"
        /\ ret.value.found <=> TokenRows(Upper(call.symbol)) # {}
        /\ ret.value.found =>
             \E i \in TokenRows(Upper(call.symbol)) :
                /\ ret.value.symbol = tokens[i].symbol
                /\ ret.value.issuer = tokens[i].issuer
                /\ ret.value.precision = tokens[i].precision

C12_Witness ==
    /\ call.op = "get_token"
    /\ call.symbol = "tkn"
    /\ pc = "returned"
    /\ ret.value.found
    /\ ret.value.symbol = "TKN"
    /\ ret.value.precision = NativePrecision

\* The rows of the balances table the user holds for a symbol: held under
\* exactly that symbol, or under it in any letter case.
RowsHeld(user, symbol) ==
    { i \in DOMAIN balances :
        balances[i].account = user /\ balances[i].symbol = symbol }
RowsHeldAnyCase(user, symbol) ==
    { i \in DOMAIN balances :
        balances[i].account = user /\ Upper(balances[i].symbol) = Upper(symbol) }

\* The balance of the first of the rows, and 0 when there is none.
BalanceOfFirst(rows) ==
    IF rows = {} THEN Dec(0, 0)
    ELSE balances[CHOOSE i \in rows : \A k \in rows : i <= k].balance

\* C13 as stated: get_token_balance returns the balance of the user's row
\* whose symbol equals the argument in any letter case of either, and 0
\* when the user holds no such row.
C13_Original ==
    call.op = "get_token_balance" =>
        /\ pc = "returned"
        /\ ret.value = BalanceOfFirst(RowsHeldAnyCase(call.user, call.symbol))

\* C13, amended: get_token_balance returns the balance of the user's first
\* row stored under exactly the upper-cased argument, and 0 without raising
\* when the user holds no row under that symbol.
C13_UpperedArgumentMatch ==
    call.op = "get_token_balance" =>
        /\ pc = "returned"
        /\ ret.value = BalanceOfFirst(RowsHeld(call.user, Upper(call.symbol)))

C13_Witness ==
    /\ call.op = "get_token_balance"
    /\ call.user = "alice"
    /\ call.symbol = "abc"
    /\ RowsHeld("alice", "Abc") # {}
    /\ pc = "returned"
    /\ ret.value = Dec(0, 0)

\* ------------------------------------------------- claims on the cache
\* The caller is named by a blacklist: by its full path, by its function
\* name, or by its module or a module above it.
Blacklisted(c) ==
    \/ c \in blacklist.paths
    \/ c.function \in blacklist.funcs
    \/ \E n \in 1..Len(c.module) : SubSeq(c.module, 1, n) \in blacklist.mods

\* The call went through the cache: the switch is on and the caller is on
\* no blacklist.
ThroughCache(w) == CACHE /\ ~Blacklisted(w.caller)

\* Two calls of one key, the second later, within one time-to-live.
CallPairs ==
    { <<key, i, k>> \in (DOMAIN window) \X (1..MaxCalls + 1) \X (1..MaxCalls + 1) :
        i < k /\ k <= Len(window[key]) }

\* C16 as stated: of two calls through the cache with the same arguments
\* within the time-to-live, at most one invokes the wrapped function,
\* whatever the first returned.
C16_Original ==
    \A p \in CallPairs :
        LET first == window[p[1]][p[2]]
            second == window[p[1]][p[3]]
        IN  (ThroughCache(first) /\ ThroughCache(second) /\ ~first.raised)
                => ~(first.invoked /\ second.invoked)

\* C16, amended: of two calls through the cache with the same arguments
\* within the time-to-live, the second does not invoke the wrapped function
\* when the first returned a result that is not None (false included).
C16_SecondServedFromCache ==
    \A p \in CallPairs :
        LET first == window[p[1]][p[2]]
            second == window[p[1]][p[3]]
        IN  (ThroughCache(first) /\ ThroughCache(second)
                /\ ~first.raised /\ ~first.none)
                => ~second.invoked

C16_Witness ==
    /\ "ghost" \notin accounts
    /\ <<"account_exists", "ghost">> \in DOMAIN window
    /\ LET w == window[<<"account_exists", "ghost">>]
       IN  /\ Len(w) = 2
           /\ ThroughCache(w[1]) /\ ThroughCache(w[2])
           /\ w[1].invoked /\ ~w[1].raised /\ ~w[1].none
           /\ ~w[2].invoked

MaxRows == 3

\* An optional list (an argument, or the remote's answer): None, or a list.
Absent == [given |-> FALSE, list |-> <<>>]
Given(list) == [given |-> TRUE, list |-> list]

\* Variant: an empty list counts as empty too.
empty_itr(v) == ~v.given \/ v.list = <<>>

\* empty(v) of privex.helpers as the queries call it (zero and itr left
\* off): None is empty, a list is not, even when it has no element.
empty(v) == ~v.given

\* empty(sort_by) and "not self.direction" on a string or None.
Blank(str) == str \in {None, ""}

\* What a query leaves: the exception it raised (None if none), the list it
\* returned, and the remote tables it asked.
Outcome(exception, list, asked) == [exc |-> exception, r |-> list, trace |-> asked]

\* getattr(p, sort_by) on an order.
Attr(order, sort_by) == IF sort_by = "price" THEN order.price ELSE order.quantity

\* sorted(orders, key=..., reverse=...): stable in both directions; Place
\* puts one more order behind those that sort before or equal to it.
RECURSIVE Place(_, _, _, _)
Place(orders, order, sort_by, reverse) ==
    IF orders = <<>> THEN <<order>>
    ELSE IF IF reverse THEN Attr(Head(orders), sort_by) >= Attr(order, sort_by)
            ELSE Attr(Head(orders), sort_by) <= Attr(order, sort_by)
         THEN <<Head(orders)>> \o Place(Tail(orders), order, sort_by, reverse)
         ELSE <<order>> \o orders

RECURSIVE sorted(_, _, _)
sorted(orders, sort_by, reverse) ==
    IF orders = <<>> THEN <<>>
    ELSE Place(sorted(SubSeq(orders, 1, Len(orders) - 1), sort_by, reverse),
               orders[Len(orders)], sort_by, reverse)

\* Variant: the direction decides the default whatever indexes are given.
sort_reverse_any_indexes(direction, indexes, sort_by, sort_reverse) ==
    IF sort_by = "price" /\ sort_reverse = None
    THEN direction # "sell"
    ELSE sort_reverse = "True"

\* get_orderbook, lines 576-578: the reverse flag the sort is given.
sort_reverse_used(direction, indexes, sort_by, sort_reverse) ==
    IF Len(indexes) = 0 /\ sort_by = "price" /\ sort_reverse = None
    THEN direction # "sell"
    ELSE sort_reverse = "True"

\* get_orderbook(symbol, direction, user, limit, offset, indexes, sort_by,
\* sort_reverse) when rpc.find answers res.
get_orderbook(directionArg, indexesArg, sort_by, sort_reverse, res) ==
    LET direction == Lower(directionArg)
        indexes == IF empty(indexesArg) THEN <<>> ELSE indexesArg.list
        asked == << direction \o "Book" >>
    IN  IF direction \notin {"buy", "sell"}
        THEN Outcome("AttributeError", <<>>, <<>>)
        ELSE IF empty(res) THEN Outcome("NoResults", <<>>, asked)
        ELSE IF Blank(sort_by) THEN Outcome(None, res.list, asked)
        ELSE Outcome(None,
                     sorted(res.list, sort_by,
                            sort_reverse_used(direction, indexes, sort_by, sort_reverse)),
                     asked)

\* Variant: the letter case of the direction is ignored.
SETrade_any_case(row) ==
    LET direction == IF Blank(row.direction) /\ row.type # None
                     THEN row.type ELSE row.direction
    IN  IF Lower(direction) \notin {"buy", "sell"}
        THEN [made |-> FALSE, exc |-> "AttributeError", direction |-> direction]
        ELSE IF ~row.numeric
        THEN [made |-> FALSE, exc |-> "InvalidOperation", direction |-> direction]
        ELSE [made |-> TRUE, exc |-> None, direction |-> direction]

\* SETrade.__post_init__ on a row of tradesHistory: the direction is taken
\* from the type of the raw data when the direction field is not set; the
\* numbers are converted after the direction has been checked.
SETrade(row) ==
    LET direction == IF Blank(row.direction) /\ row.type # None
                     THEN row.type ELSE row.direction
    IN  IF direction \notin {"buy", "sell"}
        THEN [made |-> FALSE, exc |-> "AttributeError", direction |-> direction]
        ELSE IF ~row.numeric
        THEN [made |-> FALSE, exc |-> "InvalidOperation", direction |-> direction]
        ELSE [made |-> TRUE, exc |-> None, direction |-> direction]

\* list(SETrade.from_list(res)): the first row that fails ends it.
RECURSIVE from_list(_, _, _)
from_list(rows, i, asked) ==
    IF i > Len(rows)
    THEN Outcome(None, [n \in DOMAIN rows |-> SETrade(rows[n])], asked)
    ELSE IF ~SETrade(rows[i]).made THEN Outcome(SETrade(rows[i]).exc, <<>>, asked)
    ELSE from_list(rows, i + 1, asked)

\* query_order_history(limit, offset, indexes, **query) when rpc.find
\* answers res.
query_order_history(res) ==
    IF empty(res) THEN Outcome("NoResults", <<>>, <<"tradesHistory">>)
    ELSE from_list(res.list, 1, <<"tradesHistory">>)

\* get_tickers(limit, offset, indexes, **query) when rpc.find answers res.
get_tickers(res) ==
    IF empty(res) THEN Outcome("NoResults", <<>>, <<"metrics">>)
    ELSE Outcome(None, res.list, <<"metrics">>)

\* The inputs of the queries.
SeqsUpTo(S, n) == UNION { [1..m -> S] : m \in 0..n }
Orders == { [price |-> pr, quantity |-> q] : pr \in 1..2, q \in 1..2 }
OrderAnswers == {Absent} \cup { Given(l) : l \in SeqsUpTo(Orders, MaxRows) }
TradeRows ==
    { [direction |-> d, type |-> ty, numeric |-> n] :
        d \in {None, "", "buy", "sell", "BUY"}, ty \in {None, "buy", "sell", "hold"},
        n \in BOOLEAN }
GoodTrade == [direction |-> None, type |-> "sell", numeric |-> TRUE]
TradeAnswers ==
    {Absent, Given(<<>>)} \cup { Given(<<row>>) : row \in TradeRows }
        \cup { Given(<<GoodTrade, row>>) : row \in TradeRows }
HistoryQueries == {"query_order_history", "order_history",
                   "find_fulfilled_buys", "find_fulfilled_sells"}

\* A query returns or raises.
LeaveQuery(c, out) ==
    /\ pc = "idle"
    /\ call' = c
    /\ exc' = [name |-> out.exc, acct |-> ""]
    /\ pc' = IF out.exc # None THEN "raised" ELSE "returned"
    /\ ret' = [kind |-> "list", value |-> out.r]
    /\ trace' = out.trace
    /\ UNCHANGED <<world, cache, steem_ins, SharedInstance, sent, j, lookup>>

GetOrderbook(direction, indexes, sort_by, sort_reverse, res) ==
    LeaveQuery([op |-> "get_orderbook", direction |-> direction,
                indexes |-> indexes, sort_by |-> sort_by,
                sort_reverse |-> sort_reverse, res |-> res],
               get_orderbook(direction, indexes, sort_by, sort_reverse, res))

\* query_order_history, or one of the methods that pass their arguments on
\* to it.
QueryOrderHistory(op, res) ==
    LeaveQuery([op |-> op, res |-> res], query_order_history(res))

GetTickers(res) ==
    LeaveQuery([op |-> "get_tickers", res |-> res], get_tickers(res))

\* SETrade(**row): a trade is constructed from one row.
NewTrade(row) ==
    LeaveQuery([op |-> "SETrade", row |-> row],
               Outcome(SETrade(row).exc, <<SETrade(row)>>, <<>>))

NextQueries ==
    \/ /\ pc = "idle"
       /\ \E direction \in {"buy", "SELL", "Hold"},
             indexes \in {Absent, Given(<<>>), Given(<< "timestamp" >>)},
             sort_by \in {"price", "quantity", ""},
             sort_reverse \in {None, "True", "False"}, res \in OrderAnswers :
               GetOrderbook(direction, indexes, sort_by, sort_reverse, res)
    \/ /\ pc = "idle"
       /\ \E op \in HistoryQueries, res \in TradeAnswers : QueryOrderHistory(op, res)
    \/ \E res \in {Absent, Given(<<>>), Given(<< "TKN" >>)} : GetTickers(res)
    \/ \E row \in TradeRows : NewTrade(row)
    \/ Finish

\* The queries read neither the cache switch nor the token stores: one
\* client stands for all.
InitQueries == Init /\ CACHE /\ tokens[1].precision = NativePrecision

SpecQueries == InitQueries /\ [][NextQueries]_vars

\* ------------------------------------------------- claims on the queries
\* The orders stand in the order of the attribute, descending or ascending.
InOrder(orders, sort_by, descending) ==
    \A i, k \in DOMAIN orders :
        i < k => IF descending
                 THEN Attr(orders[i], sort_by) >= Attr(orders[k], sort_by)
                 ELSE Attr(orders[i], sort_by) <= Attr(orders[k], sort_by)

\* Both lists hold the same orders, each as often.
SameOrders(a, b) ==
    \A o \in Orders :
        Cardinality({ i \in DOMAIN a : a[i] = o })
            = Cardinality({ i \in DOMAIN b : b[i] = o })

OrderbookReturned == call.op = "get_orderbook" /\ pc = "returned"

Queried == call.op \in HistoryQueries \cup {"get_orderbook", "get_tickers"}

\* C15: a trade history query, get_orderbook or get_tickers raises
\* NoResults exactly when its remote call answered None, and returns the
\* empty list without raising when the remote answered an empty list.
C15_NoResultsOnlyOnNone ==
    Queried =>
        /\ exc.name = "NoResults" <=> (trace # <<>> /\ ~call.res.given)
        /\ (trace # <<>> /\ call.res = Given(<<>>)) =>
              (pc = "returned" /\ ret.value = <<>>)

C15_Witness ==
    /\ call.op = "find_fulfilled_buys"
    /\ call.res = Given(<<>>)
    /\ pc = "returned"
    /\ ret.value = <<>>

\* The direction a row gives a trade: its direction field, or else its type.
DirectionOf(row) ==
    IF row.direction \notin {None, ""} THEN row.direction ELSE row.type

\* C19: a trade is constructed only from a row whose direction, taken from
\* the direction field or else from the type of the raw data, is exactly
\* buy or sell; with any other value, or none, the construction raises.
C19_TradeNeedsBuyOrSell ==
    call.op = "SETrade" =>
        /\ pc = "returned" => DirectionOf(call.row) \in {"buy", "sell"}
        /\ DirectionOf(call.row) \notin {"buy", "sell"} =>
              (pc = "raised" /\ exc.name = "AttributeError")
        /\ pc = "returned" => ret.value[1].direction = DirectionOf(call.row)

C19_Witness ==
    /\ call.op = "SETrade"
    /\ call.row.direction = ""
    /\ call.row.type = "sell"
    /\ pc = "returned"
    /\ ret.value[1].direction = "sell"

\* ------------------------------------------------- concurrent callers
\* A fourth specification: threads call get_token through the cache at the
\* same time.  The wrapper takes no lock: reading the cache, calling the
\* wrapped function and storing its result are separate steps of a thread.
\* Here cache is the set of the backend's entries.
MaxThreads == 2
Threads == 1..MaxThreads

Outside == [at |-> "out", symbol |-> "", r |-> NoToken, invoked |-> FALSE]

InitRace ==
    /\ client = NewClient("HIVE")
    /\ tokens = << TokenRow("TKN", "alice", NativePrecision) >>
    /\ balances = <<>>
    /\ accounts = {"alice", "bob"}
    /\ CACHE = TRUE
    /\ blacklist = NoBlacklist
    /\ window = NoWindow
    /\ threads = [run |-> [t \in Threads |-> Outside], completed |-> {}]
    /\ cache = {}
    /\ steem_ins = [n \in Networks |-> NoInstance]
    /\ use_shared_instances = FALSE
    /\ SharedInstance = NoInstance
    /\ pc = "idle"
    /\ call = NoCall
    /\ exc = NoExc
    /\ trace = <<>>
    /\ sent = <<>>
    /\ j = NoTx
    /\ ret = NoRet
    /\ lookup = NoLookup

\* The entries the backend holds under a key.
Entries(key) == { e \in cache : e.key = key }

\* Variant: a set adds an entry and leaves the ones already there.
cached_add(key, value) == cache \cup {[key |-> key, value |-> value]}

\* cached.set(key, value): the key's entry is replaced.
cached_set(key, value) == (cache \ Entries(key)) \cup {[key |-> key, value |-> value]}

Move(t, to) == [threads EXCEPT !.run[t] = to]

\* A thread calls get_token(symbol): the wrapper reads the cache; a hit is
\* returned, on a miss the wrapped function is called next.
Enter(t, symbol) ==
    /\ threads.run[t].at = "out"
    /\ LET held == Entries(<<"token", symbol>>)
       IN  threads' = Move(t,
             IF held # {}
             THEN [at |-> "done", symbol |-> symbol,
                   r |-> (CHOOSE e \in held : TRUE).value, invoked |-> FALSE]
             ELSE [at |-> "miss", symbol |-> symbol, r |-> NoToken,
                   invoked |-> FALSE])
    /\ UNCHANGED <<client, tokens, balances, accounts, CACHE, use_shared_instances, blacklist, window,
                   cache, steem_ins, SharedInstance, frame>>

\* The wrapped function runs and completes: rpc.findone answers from the
\* store as it is now.
CallWrapped(t) ==
    /\ threads.run[t].at = "miss"
    /\ LET r == FindOne(tokens, 1, Upper(threads.run[t].symbol))
       IN  threads' = [Move(t, [threads.run[t] EXCEPT !.at = "got", !.r = r,
                                                     !.invoked = TRUE])
                         EXCEPT !.completed = @ \cup {r}]
    /\ UNCHANGED <<client, tokens, balances, accounts, CACHE, use_shared_instances, blacklist, window,
                   cache, steem_ins, SharedInstance, frame>>

\* The wrapper stores what the function returned, unless that is None, and
\* returns it.
Store(t) ==
    /\ threads.run[t].at = "got"
    /\ cache' = IF threads.run[t].r.found
                THEN cached_set(<<"token", threads.run[t].symbol>>, threads.run[t].r)
                ELSE cache
    /\ threads' = Move(t, [threads.run[t] EXCEPT !.at = "done"])
    /\ UNCHANGED <<client, tokens, balances, accounts, CACHE, use_shared_instances, blacklist, window,
                   steem_ins, SharedInstance, frame>>

\* The caller has its result and may call again.
Leaves(t) ==
    /\ threads.run[t].at = "done"
    /\ threads' = Move(t, Outside)
    /\ UNCHANGED <<client, tokens, balances, accounts, CACHE, use_shared_instances, blacklist, window,
                   cache, steem_ins, SharedInstance, frame>>

\* The sidechain changes the token's row: its issuer hands it over.
TransferOwnership(issuer) ==
    /\ tokens[1].issuer # issuer
    /\ tokens' = [tokens EXCEPT ![1].issuer = issuer]
    /\ UNCHANGED <<client, balances, accounts, CACHE, use_shared_instances, blacklist, window,
                   threads, cache, steem_ins, SharedInstance, frame>>

\* An entry reaches its time-to-live.
Evict(e) ==
    /\ cache' = cache \ {e}
    /\ UNCHANGED <<world, steem_ins, SharedInstance, frame>>

NextRace ==
    \/ \E t \in Threads, symbol \in {"tkn", "NOPE"} : Enter(t, symbol)
    \/ \E t \in Threads : CallWrapped(t)
    \/ \E t \in Threads : Store(t)
    \/ \E t \in Threads : Leaves(t)
    \/ \E issuer \in {"alice", "bob"} : TransferOwnership(issuer)
    \/ \E e \in cache : Evict(e)

SpecRace == InitRace /\ [][NextRace]_vars

\* C18: concurrent callers of one cached method and key may each call the
\* wrapped function during a miss; the cache never holds more than one
\* entry for a key, what it holds is the result of a completed call of the
\* wrapped function, and so is what each caller that has finished received.
C18_RaceKeepsOneEntry ==
    /\ \A e \in cache : Cardinality(Entries(e.key)) = 1 /\ e.value \in threads.completed
    /\ \A t \in Threads :
          threads.run[t].at = "done" => threads.run[t].r \in threads.completed

C18_Witness ==
    /\ \A t \in Threads :
          /\ threads.run[t].at = "done"
          /\ threads.run[t].symbol = "tkn"
          /\ threads.run[t].invoked
    /\ threads.run[1].r # threads.run[2].r
    /\ Cardinality(Entries(<<"token", "tkn">>)) = 1

\* ------------------------------------------------- the constructor's arguments
\* A fifth specification: the client is constructed with or without a
\* network_account and a native_coin of the caller's, on either network,
\* and then sends tokens and places buy orders.  The client record keeps
\* the arguments it was constructed with.
InitDefaults ==
    /\ \E a \in { [network_account |-> na, network |-> n, native_coin |-> nc] :
                      na \in {None, "my-sidechain"}, n \in {"steem", "HIVE"},
                      nc \in {None, "mycoin"} } :
         client = [args |-> a] @@
                  SteemEngineToken(IF a.network_account = None THEN "ssc-mainnet1"
                                   ELSE a.network_account,
                                   a.network, a.native_coin)
    /\ tokens = << TokenRow("TKN", "alice", NativePrecision),
                   TokenRow("STEEMP", "bob", NativePrecision),
                   TokenRow("SWAP.HIVE", "bob", NativePrecision),
                   TokenRow("MYCOIN", "bob", NativePrecision) >>
    /\ \E coin \in {"STEEMP", "SWAP.HIVE", "MYCOIN"} :
         balances =
            << [account |-> "alice", symbol |-> "TKN",
                balance |-> Dec(2, NativePrecision)],
               [account |-> "bob", symbol |-> coin,
                balance |-> Dec(2, NativePrecision)] >>
    /\ accounts = {"alice", "bob"}
    /\ CACHE = TRUE
    /\ blacklist = NoBlacklist
    /\ window = NoWindow
    /\ threads = NoThreads
    /\ cache = EmptyCache
    /\ steem_ins = [n \in Networks |-> NoInstance]
    /\ use_shared_instances = FALSE
    /\ SharedInstance = NoInstance
    /\ pc = "idle"
    /\ call = NoCall
    /\ exc = NoExc
    /\ trace = <<>>
    /\ sent = <<>>
    /\ j = NoTx
    /\ ret = NoRet
    /\ lookup = NoLookup

NextDefaults ==
    \/ \E a \in AmountArgs(Precision), nc \in Env("send_token") :
            SendToken("tkn", "alice", "bob", a, nc)
    \/ \E q \in QuantityArgs(Precision), pr \in PriceArgs(Precision),
          nc \in Env("place_order") :
            PlaceOrder("bob", "buy", "tkn", q, pr, nc)
    \/ \E find_tx \in {FALSE} : ReturnAck(find_tx)
    \/ Finish

SpecDefaults == InitDefaults /\ [][NextDefaults]_vars

\* The account and the coin the caller of the constructor asked for: the
\* ones passed, and the network's defaults for what was not passed.
AccountAsked ==
    IF client.args.network_account # None THEN client.args.network_account
    ELSE IF Lower(client.args.network) = "hive" THEN "ssc-mainnet-hive"
    ELSE "ssc-mainnet1"
CoinAsked ==
    IF client.args.native_coin # None THEN Upper(client.args.native_coin)
    ELSE IF Lower(client.args.network) = "hive" THEN "SWAP.HIVE"
    ELSE "STEEMP"

\* A buy order got as far as its balance check.
BuyChecked ==
    /\ Decided /\ call.op = "place_order"
    /\ exc.name \notin {"AttributeError", "TokenNotFound", "ArithmeticError"}

\* The part of C20 on the coin: a buy order is refused for its balance
\* exactly when the user's balance of the coin asked for is below the
\* order's cost.
C20_CoinAskedIsChecked ==
    BuyChecked =>
        (exc.name = "NotEnoughBalance"
            <=> DecLT(BalanceOf(call.user, CoinAsked),
                      DecRoundDown(OrderUnrounded, PrecisionOf(CoinAsked))))

\* C20: the client broadcasts to ssc-mainnet1 and checks buy orders against
\* STEEMP on steem, ssc-mainnet-hive and SWAP.HIVE on hive, unless the
\* caller passed a network_account or a native_coin to the constructor,
\* which is then the one used, on either network.
C20_ArgumentsOverrideDefaults ==
    /\ \A i \in DOMAIN sent : sent[i].id = AccountAsked
    /\ C20_CoinAskedIsChecked

\* A hive client constructed with network_account='my-sidechain' has
\* broadcast.
C20_Witness ==
    /\ client.network = "hive"
    /\ client.args.network_account = "my-sidechain"
    /\ Len(sent) = 1
    /\ sent[1].id = "ssc-mainnet-hive"

\* ------------------------------------------------- claims on accounts
\* C21: account_exists(user) returns true exactly when the account lookup
\* finds the user and false when it finds nothing; it never raises
\* AccountNotFound (the only error it raises is the network check's).
C21_AccountExistsAnswersLookup ==
    call.op = "account_exists" =>
        /\ exc.name # "AccountNotFound"
        /\ pc = "returned" => (ret.value.yes <=> call.user \in accounts)
        /\ pc = "raised" => (exc.name = "WrongNetwork" /\ ~Requested("get_account"))

C21_Witness ==
    /\ call.op = "account_exists"
    /\ call.user \notin accounts
    /\ Requested("get_account")
    /\ pc = "returned"
    /\ ~ret.value.yes

\* ---- C23
\* C23: in send_token the network check comes after every other check: a
\* call that fails the token, amount, balance, sender or receiver check
\* raises that check's error and never WrongNetwork, also when the SDK
\* instance is on the other chain.
C23_NetworkCheckedLast ==
    (Decided /\ call.op = "send_token" /\ Violated # {}) =>
        exc.name # "WrongNetwork"

\* A transfer from a sender that does not exist, on an instance of the other
\* chain: the account lookup never runs and nothing is broadcast.
C23_Witness ==
    /\ pc = "raised"
    /\ call.op = "send_token"
    /\ Mismatch
    /\ Violated = {4}
    /\ exc.name = "WrongNetwork"
    /\ ~Requested("get_account")
    /\ ~Requested("custom_json")

\* ---- C24
\* C24: place_order rounds quantity and price down to the traded token's
\* precision; the quantity string of the payload has the token's number of
\* decimal places, and the price string has the native coin's number of
\* places (the price rounded to the token's places, then cut or padded to
\* the native coin's).
C24_PayloadPlaces ==
    (pc = "broadcast" /\ call.op = "place_order") =>
        LET p == PrecisionOf(call.symbol)
            n == PrecisionOf(client.native_coin)
        IN  /\ sent[1].custom.quantity.dp = p
            /\ sent[1].custom.price.dp = n
            /\ sent[1].custom.quantity =
                   FormatFixed(DecRoundDown(conv_dec(call.amount), p), p)
            /\ sent[1].custom.price =
                   FormatFixed(DecRoundDown(conv_dec(call.price), p), n)

\* C24 as stated: both strings have the traded token's number of places.
C24_BothAtTokenPlaces ==
    (pc = "broadcast" /\ call.op = "place_order") =>
        /\ sent[1].custom.quantity.dp = PrecisionOf(call.symbol)
        /\ sent[1].custom.price.dp = PrecisionOf(call.symbol)

\* An order on a token with more places than the native coin: the price is
\* sent with the native coin's places.
C24_Witness ==
    /\ pc = "broadcast"
    /\ call.op = "place_order"
    /\ PrecisionOf(call.symbol) > PrecisionOf(client.native_coin)
    /\ sent[1].custom.price.dp = PrecisionOf(client.native_coin)
    /\ sent[1].custom.quantity.dp = PrecisionOf(call.symbol)

\* ---- C29
\* C29: a send_token or place_order call that gets to its balance check has
\* requested the balance rows from the RPC within that call, exactly once,
\* whatever the cache holds; the token record and the account answers may
\* come from the cache.
C29_BalanceFetchedInCall ==
    ( /\ Decided /\ call.op \in {"send_token", "place_order"}
      /\ \/ pc = "broadcast"
         \/ exc.name \in {"NotEnoughBalance", "AccountNotFound", "WrongNetwork"} ) =>
        Count("rpc.find") = 1

\* A transfer whose token record and account answers all came from the
\* cache, and whose balance was still requested.
C29_Witness ==
    /\ pc = "broadcast"
    /\ call.op = "send_token"
    /\ CACHE
    /\ ~Requested("rpc.findone")
    /\ ~Requested("get_account")
    /\ Count("rpc.find") = 1

\* ------------------------------------------------- bypassing the cache
\* A sixth specification: the wrapped reads of a hive client whose native
\* coin is a token of the engine, by callers on and off the blacklists.
InitBypass ==
    /\ client = NewClient("HIVE")
    /\ tokens = << TokenRow("SWAP.HIVE", "null", NativePrecision),
                   TokenRow("TKN", "alice", 0) >>
    /\ balances = <<>>
    /\ accounts = {"alice"}
    /\ CACHE \in BOOLEAN
    /\ blacklist \in Blacklists
    /\ window = NoWindow
    /\ threads = NoThreads
    /\ cache = EmptyCache
    /\ steem_ins = [n \in Networks |-> NoInstance]
    /\ use_shared_instances = FALSE
    /\ SharedInstance = NoInstance
    /\ pc = "idle"
    /\ call = NoCall
    /\ exc = NoExc
    /\ trace = <<>>
    /\ sent = <<>>
    /\ j = NoTx
    /\ ret = NoRet
    /\ lookup = NoLookup

\* An outside caller reads the native_token property.
NativeToken(caller, nc) ==
    /\ pc = "idle"
    /\ OpenCalls < MaxCalls
    /\ LeaveRead(native_token([Frame(nc) EXCEPT !.caller = caller]),
                 [NoCall EXCEPT !.op = "native_token"],
                 <<"token", client.native_coin>>, "Token")

NextBypass ==
    \/ \E caller \in Callers, nc \in ReadEnv : NativeToken(caller, nc)
    \/ \E symbol \in {"swap.hive", "tkn"}, caller \in Callers, nc \in ReadEnv :
            GetToken(symbol, caller, nc)
    \/ \E user \in {"alice", "ghost"}, caller \in Callers, nc \in ReadEnv :
            AccountExists(user, caller, nc)
    \/ \E key \in DOMAIN window : TimeToLive(key)
    \/ Finish

SpecBypass == InitBypass /\ [][NextBypass]_vars

\* C28: a wrapped call that bypasses the cache (switch off, or blacklisted
\* caller) neither reads nor writes it: the cache after the call is the
\* cache before it, and the call asked the remote for what it returned.
C28_BypassLeavesCache ==
    \A key \in DOMAIN window : \A i \in DOMAIN window[key] :
        (~CACHE \/ Blacklisted(window[key][i].caller)) =>
            /\ ~window[key][i].wrote
            /\ window[key][i].remote

\* The part that holds: a bypassing get_token or account_exists, and every
\* wrapped call with the switch off, leaves the cache as it was.
BypassOfPlainReadLeavesCache ==
    \A key \in DOMAIN window : \A i \in DOMAIN window[key] :
        ( /\ ~CACHE \/ Blacklisted(window[key][i].caller)
          /\ ~CACHE \/ window[key][i].op # "native_token" ) =>
            /\ ~window[key][i].wrote
            /\ window[key][i].remote

\* A blacklisted caller reads native_token while the cache is empty: the
\* inner get_token stores the token under the property's own key.
C28_Witness ==
    /\ CACHE
    /\ pc = "returned" /\ call.op = "native_token"
    /\ LET w == window[<<"token", client.native_coin>>]
       IN  /\ Blacklisted(w[Len(w)].caller)
           /\ w[Len(w)].wrote
           /\ ~w[Len(w)].held
    /\ <<"token", client.native_coin>> \in DOMAIN cache

\* ------------------------------------------------- two networks
\* A seventh specification: one process with clients of both networks.
\* client is the object whose method is called next; tokens and accounts
\* are the tables of the engine and the chain that object talks to.  The
\* instance table, Beem's shared instance and the cache belong to the
\* process.
EngineOf(network) ==
    IF network = "steem"
    THEN [tokens |-> << TokenRow("TKN", "alice", NativePrecision) >>,
          accounts |-> {"alice"}]
    ELSE [tokens |-> << TokenRow("TKN", "bob", 0) >>,
          accounts |-> {"alice", "bob"}]

InitNetworks ==
    /\ client = NewClient("steem")
    /\ tokens = EngineOf("steem").tokens
    /\ accounts = EngineOf("steem").accounts
    /\ balances = <<>>
    /\ CACHE = TRUE
    /\ use_shared_instances \in BOOLEAN
    /\ SharedInstance = NoInstance
    /\ blacklist = NoBlacklist
    /\ window = NoWindow
    /\ threads = NoThreads
    /\ cache = EmptyCache
    /\ steem_ins = [n \in Networks |-> NoInstance]
    /\ pc = "idle"
    /\ call = NoCall
    /\ exc = NoExc
    /\ trace = <<>>
    /\ sent = <<>>
    /\ j = NoTx
    /\ ret = NoRet
    /\ lookup = NoLookup

\* A call on the instance table returns an instance or raises.
LeaveTable(c, table, shared, value, error) ==
    /\ steem_ins' = table
    /\ SharedInstance' = shared
    /\ call' = c
    /\ pc' = IF error # None THEN "raised" ELSE "returned"
    /\ exc' = [name |-> error, acct |-> ""]
    /\ ret' = [kind |-> "Beem", value |-> IF error # None THEN NoInstance ELSE value]
    /\ UNCHANGED <<balances, CACHE, use_shared_instances, blacklist, window,
                   threads, cache, trace, sent, j, lookup>>

\* SteemEngineToken(network=networkArg) or SteemEngineToken(network=networkArg,
\* nodes=...): the object called from now on; with nodes it calls set_beem.
Construct(networkArg, nodes, chainName) ==
    /\ pc = "idle"
    /\ client' = NewClient(networkArg)
    /\ tokens' = EngineOf(Lower(networkArg)).tokens
    /\ accounts' = EngineOf(Lower(networkArg)).accounts
    /\ LeaveTable([NoCall EXCEPT !.op = "__init__"] @@ [nodes |-> nodes],
                  IF nodes THEN set_beem_table(Lower(networkArg), None, chainName)
                  ELSE steem_ins,
                  SharedInstance, NoInstance, None)

\* The application reads client.steem.
Steem(nc) ==
    /\ pc = "idle"
    /\ LET s == steem(Frame(nc))
       IN  LeaveTable([NoCall EXCEPT !.op = "steem"], s.ins, s.shared,
                      s.ins[client.network], s.exc)
    /\ UNCHANGED <<client, tokens, accounts>>

\* client.set_beem(nodes) or client.set_beem(nodes, network).
SetBeem(network, chainName) ==
    /\ pc = "idle"
    /\ LET table == set_beem_table(client.network, network, chainName)
       IN  LeaveTable([NoCall EXCEPT !.op = "set_beem"] @@ [network |-> network],
                      table, SharedInstance,
                      table[IF network = None THEN client.network ELSE network],
                      None)
    /\ UNCHANGED <<client, tokens, accounts>>

\* client.steem = client.custom_beem(nodes, network): the setter, given an
\* instance the application made.
AssignSteem(chainName) ==
    /\ pc = "idle"
    /\ LET value == custom_beem(Frame([chain |-> chainName, strict |-> FALSE]))
       IN  LeaveTable([NoCall EXCEPT !.op = "steem.setter"],
                      [steem_ins EXCEPT ![client.network] = value],
                      SharedInstance, value, None)
    /\ UNCHANGED <<client, tokens, accounts>>

NextNetworks ==
    \/ \E networkArg \in {"steem", "HIVE"}, nodes \in BOOLEAN, c \in ChainNames :
            /\ nodes \/ c = "steem"
            /\ Construct(networkArg, nodes, c)
    \/ \E nc \in ReadEnv : Steem(nc)
    \/ \E network \in {None} \cup Networks, c \in ChainNames : SetBeem(network, c)
    \/ \E c \in ChainNames : AssignSteem(c)
    \/ \E caller \in Callers, nc \in ReadEnv : GetToken("tkn", caller, nc)
    \/ \E caller \in Callers, nc \in ReadEnv : AccountExists("bob", caller, nc)
    \/ GetTokenBalance("alice", "tkn")
    \/ \E key \in DOMAIN window : TimeToLive(key)
    \/ Finish

SpecNetworks == InitNetworks /\ [][NextNetworks]_vars

\* ------------------------------------------------- claims on two networks
\* The networks other than the client's whose entry is Beem's shared instance.
SharedElsewhere ==
    { n \in Networks \ {client.network} :
        SharedInstance.made /\ steem_ins[n] = SharedInstance }

\* C22: with use_shared_instances on, the entries of the two networks never
\* both are Beem's shared instance, and a client that reads its steem
\* property while the other network holds the shared instance gets an
\* instance of its own, not the shared one.
C22_SecondNetworkOwnInstance ==
    /\ ~(SharedInstance.made /\ \A n \in Networks : steem_ins[n] = SharedInstance)
    /\ ( /\ use_shared_instances
         /\ call.op = "steem" /\ pc \in {"returned", "raised"}
         /\ SharedElsewhere # {} ) =>
            /\ pc = "returned"
            /\ ret.value.made
            /\ ret.value = steem_ins[client.network]
            /\ ret.value # SharedInstance

\* The part that holds: the two entries never both are the shared instance.
NeverBothShared ==
    ~(SharedInstance.made /\ \A n \in Networks : steem_ins[n] = SharedInstance)

\* The second network's client reads steem: ValueError, and no instance.
C22_Witness ==
    /\ use_shared_instances
    /\ call.op = "steem" /\ pc = "raised"
    /\ exc.name = "ValueError"
    /\ SharedElsewhere # {}
    /\ ~steem_ins[client.network].made

\* C25: a read of the steem property returns the instance of the client's
\* network, creating it when the network has none.
C25_CreatedOnFirstAccess ==
    (call.op = "steem" /\ pc \in {"returned", "raised"}) =>
        /\ pc = "returned"
        /\ ret.value.made
        /\ ret.value = steem_ins[client.network]

\* The rest of C25, which holds: a constructor without nodes and the
\* RPC-only reads leave the table as it is, an entry once made changes only
\* by set_beem, the setter or a constructor with nodes, and a read of steem
\* with the entry made returns that entry.
InstanceKeptUnlessReplaced ==
    [][ pc = "idle" =>
          /\ ( \/ call'.op \in {"get_token", "get_token_balance"}
               \/ (call'.op = "__init__" /\ ~call'.nodes) ) =>
                  (steem_ins' = steem_ins /\ SharedInstance' = SharedInstance)
          /\ \A n \in Networks :
                (steem_ins[n].made /\ steem_ins'[n] # steem_ins[n]) =>
                    \/ call'.op \in {"set_beem", "steem.setter"}
                    \/ (call'.op = "__init__" /\ call'.nodes)
          /\ (call'.op = "steem" /\ steem_ins[client.network].made) =>
                /\ pc' = "returned"
                /\ ret'.value = steem_ins[client.network]
                /\ steem_ins' = steem_ins ]_vars

\* Shared instances on, the shared instance made by a network whose entry
\* was replaced since: the other network's first read raises.
C25_Witness ==
    /\ call.op = "steem" /\ pc = "raised"
    /\ exc.name = "ValueError"
    /\ SharedInstance.made
    /\ \A n \in Networks : steem_ins[n] # SharedInstance
    /\ ~steem_ins[client.network].made

\* C26: a get_token or account_exists result a client receives was fetched
\* from the engine and chain of the client's own network.
C26_ResultFromOwnNetwork ==
    /\ (pc = "returned" /\ call.op = "get_token") =>
          ret.value = FindOne(EngineOf(client.network).tokens, 1, Upper(call.symbol))
    /\ (pc = "returned" /\ call.op = "account_exists") =>
          (ret.value.yes <=> call.user \in EngineOf(client.network).accounts)

\* A hive client is handed the steem engine's token from the cache.
C26_Witness ==
    /\ client.network = "hive"
    /\ pc = "returned" /\ call.op = "get_token"
    /\ trace = <<>>
    /\ ret.value = EngineOf("steem").tokens[1]
    /\ ret.value # EngineOf("hive").tokens[1]

\* C30: set_beem and the steem setter, called on one client, put the new
\* instance into the process-wide entry of the network concerned (the
\* client's, or the one set_beem was given), in place of the entry's
\* instance, and leave the other network's entry unchanged; a later read of
\* steem by a client of that network returns that entry.
C30_ReplacesOneEntry ==
    [][ (pc = "idle" /\ call'.op \in {"set_beem", "steem.setter"}) =>
          LET net == IF call'.op = "set_beem" /\ call'.network # None
                     THEN call'.network ELSE client.network
          IN  /\ steem_ins'[net] = ret'.value
              /\ ret'.value.made
              /\ steem_ins'[net] # steem_ins[net]
              /\ \A n \in Networks \ {net} : steem_ins'[n] = steem_ins[n] ]_vars

\* The hive client has replaced its entry while steem's entry is in place.
C30_Witness ==
    /\ pc = "returned" /\ call.op = "set_beem"
    /\ client.network = "hive"
    /\ steem_ins["hive"] = ret.value
    /\ steem_ins["steem"].made
    /\ steem_ins["steem"] # steem_ins["hive"]

\* ------------------------------------------------- the age of a result
\* An eighth specification: the cache with its times.  Here an entry of
\* cache carries the result, the seconds since it was fetched from the RPC,
\* and the seconds it has left; the switch is on and no caller is
\* blacklisted.
get_token_cache_time == 60
cache_time == 300
\* The seconds that pass in one step of the clock.
Elapse == 20

\* What a call hands back, with the cache it leaves and the age of the result.
Timed(c, r, age) == [cache |-> c, r |-> r, age |-> age]

\* r_cache(key, time)(f) on the cache c: the entry of the key while it has
\* time left; otherwise what f returned (called), stored for time seconds
\* unless it is None.
r_cache(c, key, time, called) ==
    IF key \in DOMAIN c THEN Timed(c, c[key].value, c[key].age)
    ELSE IF ~called.r.found THEN called
    ELSE Timed((key :> [value |-> called.r, age |-> called.age, left |-> time])
                   @@ called.cache,
               called.r, called.age)

\* get_token, wrapped with a time of 60 seconds.
get_token_timed(c, symbol) ==
    r_cache(c, <<"token", symbol>>, get_token_cache_time,
            Timed(c, FindOne(tokens, 1, Upper(symbol)), 0))

\* Variant: the property is wrapped with get_token's time.
native_token_short(c) ==
    r_cache(c, <<"token", client.native_coin>>, get_token_cache_time,
            get_token_timed(c, client.native_coin))

\* The native_token property, wrapped under the key of get_token(native_coin)
\* with se_cache's default time; its body calls get_token.
native_token_timed(c) ==
    r_cache(c, <<"token", client.native_coin>>, cache_time,
            get_token_timed(c, client.native_coin))

InitTime == InitBypass /\ CACHE /\ blacklist = NoBlacklist

\* A timed read returns.
LeaveTimed(out, c) ==
    /\ pc = "idle"
    /\ cache' = out.cache
    /\ ret' = [kind |-> "Token", value |-> out.r, age |-> out.age]
    /\ call' = c
    /\ pc' = "returned"
    /\ UNCHANGED <<world, steem_ins, SharedInstance, exc, trace, sent, j, lookup>>

GetTokenTimed(symbol) ==
    LeaveTimed(get_token_timed(cache, symbol),
               [NoCall EXCEPT !.op = "get_token", !.symbol = symbol])

NativeTokenTimed ==
    LeaveTimed(native_token_timed(cache), [NoCall EXCEPT !.op = "native_token"])

\* Elapse seconds pass: every entry ages, and an entry with no time left is
\* dropped.
Pass ==
    /\ pc = "idle"
    /\ cache # EmptyCache
    /\ cache' = [k \in { k \in DOMAIN cache : cache[k].left > Elapse } |->
                    [cache[k] EXCEPT !.age = @ + Elapse, !.left = @ - Elapse]]
    /\ UNCHANGED <<world, steem_ins, SharedInstance, frame>>

NextTime ==
    \/ \E symbol \in {"SWAP.HIVE", "tkn", "NOPE"} : GetTokenTimed(symbol)
    \/ NativeTokenTimed
    \/ Pass
    \/ Finish

SpecTime == InitTime /\ [][NextTime]_vars

\* C27: a Token that get_token returns was fetched from the RPC no more than
\* 60 seconds (get_token's time-to-live) before, for every symbol, the
\* native coin's included.
C27_TokenAtMostSixtySecondsOld ==
    (pc = "returned" /\ call.op = "get_token" /\ ret.value.found) =>
        ret.age <= get_token_cache_time

\* The part that holds: a token under a key that native_token does not write.
OtherTokensFresh ==
    ( /\ pc = "returned" /\ call.op = "get_token" /\ ret.value.found
      /\ call.symbol # client.native_coin ) =>
        ret.age <= get_token_cache_time

\* get_token of the native coin hands back what native_token stored more
\* than 60 seconds ago.
C27_Witness ==
    /\ pc = "returned" /\ call.op = "get_token"
    /\ call.symbol = client.native_coin
    /\ ret.value.found
    /\ ret.age > get_token_cache_time
    /\ <<"token", client.native_coin>> \in DOMAIN cache
====
